---- MODULE Spec2Model ----
(***************************************************************************)
(* State-machine model of bm::bvector (src/src/bm.h): the two-level block  *)
(* tree (top array -> sub-arrays -> blocks), the three-operand and the     *)
(* in-place set algebra, merge, range set/clear, resize, invert, optimize  *)
(* and the rank/select queries.                                            *)
(*                                                                         *)
(* A block slot is a record [k, b]: k is the kind of the tagged pointer    *)
(* ("N" NULL, "F" FULL_BLOCK_FAKE_ADDR, "B" bit-block, "G" GAP block) and  *)
(* b the set of in-block positions that are set.  A sub-array slot is a    *)
(* record [k, a]: "N" NULL, "F" FULL_BLOCK_FAKE_ADDR, "A" an allocated     *)
(* array a of block slots.  The geometry is scaled down: a block holds     *)
(* bits_in_block positions, a sub-array set_sub_array_size blocks, the top *)
(* array at most set_top_array_size sub-arrays.                            *)
(***************************************************************************)
EXTENDS Integers, FiniteSets, Sequences, TLC

VARIABLES bv, pre, last

vars == <<bv, pre, last>>

----------------------------------------------------------------------------
(* Geometry (bmconst.h, scaled) *)

bits_in_block == 10

set_sub_array_size == 2

set_top_array_size == 2

set_total_blocks == set_sub_array_size * set_top_array_size

\* the physical capacity is id_max + 1 bits; position id_max is never valid
id_max == set_total_blocks * bits_in_block - 1

rs3_border0 == 3

rs3_border1 == 6

rs3_half_span == 1

\* largest GAP length (number of runs) the top GAP level holds
gap_max_len == 6

BitIdx == 0 .. (bits_in_block - 1)

SubIdx == 0 .. (set_sub_array_size - 1)

Min2(x, y) == IF x < y THEN x ELSE y

Max2(x, y) == IF x > y THEN x ELSE y

----------------------------------------------------------------------------
(* Block slots *)

NullBlk == [k |-> "N", b |-> {}]

FullBlk == [k |-> "F", b |-> BitIdx]

BitBlk(s) == [k |-> "B", b |-> s]

GapBlk(s) == [k |-> "G", b |-> s]

IS_FULL_BLOCK(blk) == blk.k = "F"

BM_IS_GAP(blk) == blk.k = "G"

IS_VALID_ADDR(blk) == blk.k \in {"B", "G"}

\* number of runs of a GAP encoding of the set s
GapLen(s) == 1 + Cardinality({n \in 0 .. (bits_in_block - 2) : (n \in s) # ((n + 1) \in s)})

\* a GAP result is stored as GAP when it fits the top level, else as a bit-block
GapStore(s) == IF GapLen(s) > gap_max_len THEN BitBlk(s) ELSE GapBlk(s)

\* gap_init_range_block: the scratch GAP [l, r] = v, the rest = ~v
gap_init_range_block(l, r, v) == IF v THEN l .. r ELSE BitIdx \ (l .. r)

\* blocks_manager::clone_assign_block(i, j, src, invert)
clone_assign_block(src, inv) ==
    CASE src.k = "G" -> GapBlk(IF inv THEN BitIdx \ src.b ELSE src.b)
      [] src.k = "F" -> IF inv THEN NullBlk ELSE FullBlk
      [] src.k = "B" -> BitBlk(IF inv THEN BitIdx \ src.b ELSE src.b)
      [] OTHER -> NullBlk

\* blocks_manager::optimize_bit_block: free an all-zero block, collapse an
\* all-one block to FULL, re-encode as GAP when the length fits a level
optimize_bit_block(blk) ==
    IF blk.k # "B" THEN blk
    ELSE IF blk.b = {} THEN NullBlk
    ELSE IF blk.b = BitIdx THEN FullBlk
    ELSE IF GapLen(blk.b) <= gap_max_len THEN GapBlk(blk.b)
    ELSE blk

----------------------------------------------------------------------------
(* Sub-arrays and the top array *)

NullArr == [j \in SubIdx |-> NullBlk]

FullArr == [j \in SubIdx |-> FullBlk]

NullSub == [k |-> "N", a |-> NullArr]

FullSub == [k |-> "F", a |-> FullArr]

ArrSub(a) == [k |-> "A", a |-> a]

EmptyTop == [i \in {} |-> NullSub]

\* blocks_manager::compute_top_block_size(bits_to_store)
compute_top_block_size(bits) ==
    IF bits >= id_max THEN set_top_array_size
    ELSE Min2(set_top_array_size, bits \div (set_sub_array_size * bits_in_block) + 1)

\* bvector(strat, glevel_len, bv_size): the tree is not allocated yet, the
\* top array is sized on first use
NewVector(sz, strat) ==
    [root |-> FALSE, top |-> EmptyTop, tsize |-> 1, size |-> sz, strat |-> strat]

init_tree(v) ==
    IF v.root THEN v
    ELSE [v EXCEPT !.root = TRUE, !.top = [i \in 0 .. (v.tsize - 1) |-> NullSub]]

deinit_tree(v) == [v EXCEPT !.root = FALSE, !.top = EmptyTop]

\* reserve_top_blocks(n): grow (or first allocate) the top array
reserve_top_blocks(v, n) ==
    IF (v.root /\ n <= v.tsize) \/ n = 0 THEN v
    ELSE [v EXCEPT !.root = TRUE, !.tsize = n,
                   !.top = [i \in 0 .. (n - 1) |->
                              IF v.root /\ i < v.tsize THEN v.top[i] ELSE NullSub]]

\* get_topblock(i): NULL when the tree is not allocated or i is out of range
get_topblock(v, i) == IF v.root /\ i < v.tsize THEN v.top[i] ELSE NullSub

\* get_block_ptr(i, j) / get_block(i, j)
get_block(v, i, j) == get_topblock(v, i).a[j]

BlockI(nb) == nb \div set_sub_array_size

BlockJ(nb) == nb % set_sub_array_size

get_block_nb(v, nb) == get_block(v, BlockI(nb), BlockJ(nb))

\* set_block_ptr(nb, blk) on an allocated tree; allocates the path to the slot
set_block(v, nb, blk) ==
    LET w == reserve_top_blocks(v, BlockI(nb) + 1)
        s == w.top[BlockI(nb)]
    IN  [w EXCEPT !.top[BlockI(nb)] = ArrSub([s.a EXCEPT ![BlockJ(nb)] = blk])]

\* the set of positions that are set in the vector
BitsOfSub(sub, i) ==
    {(i * set_sub_array_size + j) * bits_in_block + n :
        j \in SubIdx, n \in BitIdx} \cap
    UNION {{(i * set_sub_array_size + j) * bits_in_block + n : n \in sub.a[j].b} :
        j \in SubIdx}

BitsOf(v) == IF ~v.root THEN {}
             ELSE UNION {BitsOfSub(v.top[i], i) : i \in 0 .. (v.tsize - 1)}

test(v, n) == n \in BitsOf(v)

----------------------------------------------------------------------------
(* Three-operand block operations.  The target slot is NULL on entry (the  *)
(* target tree was just released); the result is the new slot value and    *)
(* the "optimization may be needed" flag.                                  *)

Res(blk, opt) == [blk |-> blk, opt |-> opt]

\* bit_block_or_2way: an all-one result becomes FULL
bit_block_or_2way(s1, s2) ==
    IF s1 \cup s2 = BitIdx THEN Res(FullBlk, FALSE) ELSE Res(BitBlk(s1 \cup s2), TRUE)

\* bit_block_xor_2way / and_2way / sub_2way: an all-zero result becomes NULL
bit_block_zero_2way(s) ==
    IF s = {} THEN Res(NullBlk, FALSE) ELSE Res(BitBlk(s), TRUE)

\* a faulty variant of the OR block kernel that copies the first operand
\* whenever it is present and never combines the second one into it
block_or_ignoring_second(arg_blk1, arg_blk2) ==
    IF arg_blk1.k = "N" THEN Res(clone_assign_block(arg_blk2, FALSE), FALSE)
    ELSE Res(clone_assign_block(arg_blk1, FALSE), FALSE)

combine_operation_block_or(arg_blk1, arg_blk2) ==
    IF arg_blk1.k = "N" THEN Res(clone_assign_block(arg_blk2, FALSE), FALSE)
    ELSE IF arg_blk2.k = "N" THEN Res(clone_assign_block(arg_blk1, FALSE), FALSE)
    ELSE IF arg_blk1.k = "F" \/ arg_blk2.k = "F" THEN Res(FullBlk, FALSE)
    ELSE IF BM_IS_GAP(arg_blk1) /\ BM_IS_GAP(arg_blk2)
         THEN Res(GapStore(arg_blk1.b \cup arg_blk2.b), FALSE)
    ELSE IF BM_IS_GAP(arg_blk1) \/ BM_IS_GAP(arg_blk2)
         THEN Res(BitBlk(arg_blk1.b \cup arg_blk2.b), TRUE)
    ELSE bit_block_or_2way(arg_blk1.b, arg_blk2.b)

combine_operation_block_xor(arg_blk1, arg_blk2) ==
    LET x == (arg_blk1.b \ arg_blk2.b) \cup (arg_blk2.b \ arg_blk1.b)
    IN  IF arg_blk1.k = "N" THEN Res(clone_assign_block(arg_blk2, FALSE), FALSE)
        ELSE IF arg_blk2.k = "N" THEN Res(clone_assign_block(arg_blk1, FALSE), FALSE)
        ELSE IF arg_blk1.k = "F" THEN Res(clone_assign_block(arg_blk2, TRUE), FALSE)
        ELSE IF arg_blk2.k = "F" THEN Res(clone_assign_block(arg_blk1, TRUE), FALSE)
        ELSE IF BM_IS_GAP(arg_blk1) /\ BM_IS_GAP(arg_blk2) THEN Res(GapStore(x), FALSE)
        ELSE IF BM_IS_GAP(arg_blk1) \/ BM_IS_GAP(arg_blk2) THEN Res(BitBlk(x), TRUE)
        ELSE bit_block_zero_2way(x)

combine_operation_block_and(arg_blk1, arg_blk2) ==
    LET x == arg_blk1.b \cap arg_blk2.b
    IN  IF arg_blk1.k = "N" \/ arg_blk2.k = "N" THEN Res(NullBlk, FALSE)
        ELSE IF arg_blk1.k = "F" /\ arg_blk2.k = "F" THEN Res(FullBlk, FALSE)
        ELSE IF arg_blk1.k = "F" THEN Res(clone_assign_block(arg_blk2, FALSE), FALSE)
        ELSE IF arg_blk2.k = "F" THEN Res(clone_assign_block(arg_blk1, FALSE), FALSE)
        ELSE IF BM_IS_GAP(arg_blk1) /\ BM_IS_GAP(arg_blk2) THEN Res(GapStore(x), FALSE)
        ELSE IF BM_IS_GAP(arg_blk1) \/ BM_IS_GAP(arg_blk2) THEN Res(BitBlk(x), TRUE)
        ELSE bit_block_zero_2way(x)

combine_operation_block_sub(arg_blk1, arg_blk2) ==
    LET x == arg_blk1.b \ arg_blk2.b
        \* FULL_BLOCK_REAL_ADDR: the first operand read as an all-one bit-block
        is_gap1 == BM_IS_GAP(arg_blk1)
        is_gap2 == BM_IS_GAP(arg_blk2)
    IN  IF arg_blk1.k = "N" THEN Res(NullBlk, FALSE)
        ELSE IF arg_blk2.k = "N" THEN Res(clone_assign_block(arg_blk1, FALSE), FALSE)
        ELSE IF arg_blk2.k = "F" THEN Res(NullBlk, FALSE)
        ELSE IF is_gap1 /\ is_gap2 THEN Res(GapStore(x), FALSE)
        ELSE IF is_gap1 THEN bit_block_zero_2way(x)
        ELSE IF is_gap2 THEN Res(BitBlk(x), TRUE)
        ELSE bit_block_zero_2way(x)

\* identity of two slots of two different vectors: only NULL and the FULL
\* marker compare equal, allocated memory never does
PtrEq(x, y) == x.k = y.k /\ x.k \in {"N", "F"}

\* the compress step of the three-operand loops
Opt3(r, opt_mode) ==
    IF r.opt /\ opt_mode = "compress" THEN optimize_bit_block(r.blk) ELSE r.blk

\* a sub-array whose slots all stayed NULL is freed again
CloseSub(a) == IF \A j \in SubIdx : a[j].k = "N" THEN NullSub ELSE ArrSub(a)

----------------------------------------------------------------------------
(* In-place (two-operand) block operations: blk is the target slot, arg    *)
(* the argument slot; the result is the new target slot.                   *)

ZeroOrBit(s) == IF s = {} THEN NullBlk ELSE BitBlk(s)

combine_operation_block_or2(blk, arg_blk) ==
    LET x == blk.b \cup arg_blk.b
    IN  IF IS_FULL_BLOCK(blk) \/ arg_blk.k = "N" THEN blk
        ELSE IF IS_FULL_BLOCK(arg_blk) THEN FullBlk
        ELSE IF BM_IS_GAP(blk)
             THEN IF BM_IS_GAP(arg_blk) THEN GapStore(x) ELSE BitBlk(x)
        ELSE IF BM_IS_GAP(arg_blk)
             THEN IF blk.k = "N" THEN GapBlk(arg_blk.b) ELSE BitBlk(x)
        ELSE IF blk.k = "N" THEN BitBlk(arg_blk.b)
        ELSE IF x = BitIdx THEN FullBlk ELSE BitBlk(x)

combine_operation_block_xor2(blk, arg_blk) ==
    LET x == (blk.b \ arg_blk.b) \cup (arg_blk.b \ blk.b)
    IN  IF arg_blk.k = "N" THEN blk
        ELSE IF IS_FULL_BLOCK(arg_blk)
             THEN CASE blk.k = "N" -> FullBlk
                    [] blk.k = "G" -> GapBlk(BitIdx \ blk.b)
                    [] blk.k = "F" -> NullBlk
                    [] OTHER -> BitBlk(BitIdx \ blk.b)
        ELSE IF IS_FULL_BLOCK(blk)
             THEN IF BM_IS_GAP(arg_blk) THEN BitBlk(x) ELSE ZeroOrBit(x)
        ELSE IF BM_IS_GAP(blk)
             THEN IF BM_IS_GAP(arg_blk) THEN GapStore(x) ELSE BitBlk(x)
        ELSE IF BM_IS_GAP(arg_blk)
             THEN IF blk.k = "N" THEN GapBlk(arg_blk.b) ELSE BitBlk(x)
        ELSE IF blk.k = "N" THEN BitBlk(arg_blk.b)
        ELSE ZeroOrBit(x)

\* called with both slots non-NULL
combine_operation_block_and2(blk, arg_blk) ==
    LET x == blk.b \cap arg_blk.b
    IN  IF IS_FULL_BLOCK(arg_blk) THEN blk
        ELSE IF BM_IS_GAP(blk)
             THEN IF BM_IS_GAP(arg_blk) THEN GapStore(x) ELSE ZeroOrBit(x)
        ELSE IF BM_IS_GAP(arg_blk)
             THEN IF arg_blk.b = {} THEN NullBlk
                  ELSE IF IS_FULL_BLOCK(blk) THEN GapBlk(arg_blk.b)
                  ELSE ZeroOrBit(x)
        ELSE IF IS_FULL_BLOCK(blk) THEN BitBlk(arg_blk.b)
        ELSE ZeroOrBit(x)

\* called with both slots non-NULL
combine_operation_block_sub2(blk, arg_blk) ==
    LET x == blk.b \ arg_blk.b
    IN  IF IS_FULL_BLOCK(arg_blk) THEN NullBlk
        ELSE IF BM_IS_GAP(blk)
             THEN IF BM_IS_GAP(arg_blk) THEN GapStore(x) ELSE ZeroOrBit(x)
        ELSE IF IS_FULL_BLOCK(blk) THEN BitBlk(x)
        ELSE ZeroOrBit(x)

\* identity of a target slot and an argument slot; same: the argument is
\* the target vector itself
SlotEq(x, y, same) == same \/ PtrEq(x, y)

\* blocks_manager::set_all_zero(free_mem) behind bvector::clear
clear(v) == IF v.root THEN deinit_tree(v) ELSE v

\* blocks_manager::copy(other): deep copy of the tree of w into the released v
copy(v, w) ==
    IF ~w.root THEN v ELSE [v EXCEPT !.root = TRUE, !.top = w.top, !.tsize = w.tsize]

\* blocks_manager::reserve(max_bits)
reserve(v, n) == IF n = 0 THEN v ELSE reserve_top_blocks(v, compute_top_block_size(n))

----------------------------------------------------------------------------
(* Range set / clear *)

\* combine_operation_with_block(nb, gap, blk, arg_blk, arg_gap = 1, opcode):
\* the argument is the scratch GAP mask; the result is the new slot
combine_operation_with_block(blk, mask, opcode) ==
    LET x == IF opcode = "BM_OR" THEN blk.b \cup mask ELSE blk.b \cap mask
    IN  IF opcode = "BM_OR" /\ blk.k = "N" THEN GapBlk(mask)
        ELSE IF BM_IS_GAP(blk) THEN (IF x = {} THEN NullBlk ELSE GapStore(x))
        ELSE IF IS_VALID_ADDR(blk)
             THEN (IF opcode # "BM_OR" /\ x = {} THEN NullBlk ELSE BitBlk(x))
        ELSE IF opcode = "BM_AND" /\ IS_FULL_BLOCK(blk) THEN BitBlk(mask)
        ELSE blk

\* the slot is rewritten only when the operation changed it
with_block(v, nb, mask, opcode) ==
    LET blk == get_block_nb(v, nb)
        res == combine_operation_with_block(blk, mask, opcode)
    IN  IF res = blk THEN v ELSE set_block(v, nb, res)

\* blocks_manager::set_all_set(nb, nb_to)
set_all_set(v, nb, nb_to) ==
    LET w == reserve_top_blocks(v, BlockI(nb_to) + 1)
        covered(i) == \A j \in SubIdx : i * set_sub_array_size + j \in nb .. nb_to
        touched(i) == \E j \in SubIdx : i * set_sub_array_size + j \in nb .. nb_to
        upd(i) == LET s == w.top[i]
                  IN  IF ~touched(i) \/ s.k = "F" THEN s
                      ELSE IF covered(i) /\ BlockI(nb) # BlockI(nb_to) THEN FullSub
                      ELSE ArrSub([j \in SubIdx |->
                               IF i * set_sub_array_size + j \in nb .. nb_to
                               THEN FullBlk ELSE s.a[j]])
    IN  [w EXCEPT !.top = [i \in 0 .. (w.tsize - 1) |-> upd(i)]]

\* blocks_manager::set_all_zero(nb, nb_to)
set_all_zero(v, nb, nb_to) ==
    LET covered(i) == \A j \in SubIdx : i * set_sub_array_size + j \in nb .. nb_to
        touched(i) == \E j \in SubIdx : i * set_sub_array_size + j \in nb .. nb_to
        upd(i) == LET s == v.top[i]
                  IN  IF ~touched(i) \/ s.k = "N" THEN s
                      ELSE IF covered(i) THEN NullSub
                      ELSE ArrSub([j \in SubIdx |->
                               IF i * set_sub_array_size + j \in nb .. nb_to
                               THEN NullBlk ELSE s.a[j]])
    IN  IF ~v.root THEN v
        ELSE [v EXCEPT !.top = [i \in 0 .. (v.tsize - 1) |-> upd(i)]]

set_range_no_check(v, left, right) ==
    LET nblock_left == left \div bits_in_block
        nblock_right == right \div bits_in_block
        nbit_left == left % bits_in_block
        nbit_right == right % bits_in_block
        r == IF nblock_left = nblock_right THEN nbit_right ELSE bits_in_block - 1
        full_first == nbit_left = 0 /\ r = bits_in_block - 1
        v1 == IF full_first THEN v
              ELSE with_block(v, nblock_left, gap_init_range_block(nbit_left, r, TRUE), "BM_OR")
        nb == IF full_first THEN nblock_left ELSE nblock_left + 1
        nb_to == nblock_right + (IF nbit_right = bits_in_block - 1 THEN 1 ELSE 0)
        v2 == IF nb < nb_to THEN set_all_set(v1, nb, nb_to - 1) ELSE v1
    IN  IF ~full_first /\ nblock_left = nblock_right THEN v1
        ELSE IF nb_to > nblock_right THEN v2
        ELSE with_block(v2, nblock_right, gap_init_range_block(0, nbit_right, TRUE), "BM_OR")

clear_range_no_check(v, left, right) ==
    LET nblock_left == left \div bits_in_block
        nblock_right == right \div bits_in_block
        nbit_left == left % bits_in_block
        nbit_right == right % bits_in_block
        r == IF nblock_left = nblock_right THEN nbit_right ELSE bits_in_block - 1
        full_first == nbit_left = 0 /\ r = bits_in_block - 1
        v1 == IF full_first THEN v
              ELSE with_block(v, nblock_left, gap_init_range_block(nbit_left, r, FALSE), "BM_AND")
        nb == IF full_first THEN nblock_left ELSE nblock_left + 1
        nb_to == nblock_right + (IF nbit_right = bits_in_block - 1 THEN 1 ELSE 0)
        v2 == IF nb < nb_to THEN set_all_zero(v1, nb, nb_to - 1) ELSE v1
    IN  IF ~full_first /\ nblock_left = nblock_right THEN v1
        ELSE IF nb_to > nblock_right THEN v2
        ELSE with_block(v2, nblock_right, gap_init_range_block(0, nbit_right, FALSE), "BM_AND")

\* resize(new_size); the shrinking branch is set_range(new_size, size_-1, false)
resize(v, new_size) ==
    IF v.size = new_size THEN v
    ELSE IF v.size < new_size
         THEN [reserve(init_tree(v), new_size) EXCEPT !.size = new_size]
    ELSE [(IF v.root THEN clear_range_no_check(v, new_size, v.size - 1) ELSE v)
            EXCEPT !.size = new_size]

\* a set_range that takes its interval as given, without ordering its ends
set_range_unordered(v, left, right, value) ==
    IF ~v.root /\ ~value THEN v
    ELSE LET w == IF right >= v.size THEN resize(v, right + 1) ELSE v
         IN  IF value THEN set_range_no_check(w, left, right)
             ELSE clear_range_no_check(w, left, right)

\* set_range(left, right, value); with right < left the call is repeated
\* with the ends swapped
set_range(v, left, right, value) ==
    IF ~v.root /\ ~value THEN v
    ELSE IF right < left THEN set_range_unordered(v, right, left, value)
    ELSE LET w == IF right >= v.size THEN resize(v, right + 1) ELSE v
         IN  IF value THEN set_range_no_check(w, left, right)
             ELSE clear_range_no_check(w, left, right)

\* operator=(bvect), for a different vector
assign(v, w) == resize(copy(deinit_tree(v), w), w.size)

----------------------------------------------------------------------------
(* In-place set algebra: v is the target, w the argument, same tells that  *)
(* the argument is the target itself.                                      *)

GrowSize(v, w) == IF v.size < w.size THEN [v EXCEPT !.size = w.size] ELSE v

\* blk_root_arg[i] guarded by i < arg_top_blocks; a read through a NULL
\* root that does not fault is taken to read NULL
ArgSub(w, i) == IF w.root /\ i < w.tsize THEN w.top[i] ELSE NullSub

MapTop(v, f(_, _)) == [v EXCEPT !.top = [i \in 0 .. (v.tsize - 1) |-> f(i, v.top[i])]]

combine_operation_or(v, w, same) ==
    LET t == reserve_top_blocks(GrowSize(v, w), w.tsize)
        sub(i, blk_blk) ==
            LET blk_blk_arg == ArgSub(w, i)
            IN  IF SlotEq(blk_blk, blk_blk_arg, same) \/ blk_blk_arg.k = "N" THEN blk_blk
                ELSE IF blk_blk.k = "F" THEN blk_blk
                ELSE IF blk_blk_arg.k = "F" THEN FullSub
                ELSE ArrSub([j \in SubIdx |->
                        IF SlotEq(blk_blk.a[j], blk_blk_arg.a[j], same) THEN blk_blk.a[j]
                        ELSE combine_operation_block_or2(blk_blk.a[j], blk_blk_arg.a[j])])
    IN  IF ~w.root THEN v ELSE MapTop(t, sub)

combine_operation_xor(v, w, same) ==
    LET t == reserve_top_blocks(GrowSize(v, w), w.tsize)
        sub(i, blk_blk) ==
            LET blk_blk_arg == ArgSub(w, i)
            IN  IF blk_blk_arg.k = "N" THEN blk_blk
                ELSE IF SlotEq(blk_blk, blk_blk_arg, same)
                     THEN (IF blk_blk.k = "F" THEN NullSub ELSE blk_blk)
                ELSE IF blk_blk_arg.k = "F" /\ blk_blk.k = "N" THEN FullSub
                ELSE ArrSub([j \in SubIdx |->
                        combine_operation_block_xor2(blk_blk.a[j], blk_blk_arg.a[j])])
    IN  IF ~w.root THEN v
        ELSE IF ~v.root THEN assign(v, w)
        ELSE MapTop(t, sub)

combine_operation_and(v, w, same) ==
    LET t == reserve_top_blocks(GrowSize(v, w), w.tsize)
        sub(i, blk_blk) ==
            LET blk_blk_arg == ArgSub(w, i)
            IN  IF blk_blk.k = "N" THEN blk_blk
                ELSE IF blk_blk_arg.k = "N" THEN NullSub
                ELSE IF blk_blk_arg.k = "F" THEN blk_blk
                ELSE ArrSub([j \in SubIdx |->
                        IF blk_blk.a[j].k = "N" THEN NullBlk
                        ELSE IF blk_blk_arg.a[j].k = "N" THEN NullBlk
                        ELSE combine_operation_block_and2(blk_blk.a[j], blk_blk_arg.a[j])])
    IN  IF ~v.root THEN v
        ELSE IF ~w.root THEN clear(v)
        ELSE MapTop(t, sub)

combine_operation_sub(v, w, same) ==
    LET t == reserve_top_blocks(GrowSize(v, w), w.tsize)
        sub(i, blk_blk) ==
            LET blk_blk_arg == ArgSub(w, i)
            IN  IF blk_blk.k = "N" \/ blk_blk_arg.k = "N" THEN blk_blk
                ELSE IF blk_blk_arg.k = "F" THEN NullSub
                ELSE ArrSub([j \in SubIdx |->
                        IF blk_blk.a[j].k # "N" /\ blk_blk_arg.a[j].k # "N"
                        THEN combine_operation_block_sub2(blk_blk.a[j], blk_blk_arg.a[j])
                        ELSE blk_blk.a[j]])
    IN  IF ~v.root \/ ~w.root THEN v ELSE MapTop(t, sub)

----------------------------------------------------------------------------
(* Three-operand set algebra: t is the target vector, bv1 and bv2 the      *)
(* operands; s12, st1, st2 tell which of the three are the same object.    *)

Released(t) == IF t.root THEN deinit_tree(t) ELSE t

\* the common prologue: the released target sized for both operands
Target3(t, bv1, bv2) ==
    [reserve_top_blocks(Released(t), Max2(bv1.tsize, bv2.tsize))
        EXCEPT !.size = Max2(bv1.size, bv2.size)]

\* the per-block loop of one sub-array, skip(x, y) being its "continue" test
Loop3(a1, a2, skip(_, _), op(_, _), opt_mode) ==
    CloseSub([j \in SubIdx |->
        IF skip(a1.a[j], a2.a[j]) THEN NullBlk
        ELSE Opt3(op(a1.a[j], a2.a[j]), opt_mode)])

BothNull(x, y) == x.k = "N" /\ y.k = "N"

\* bit_or reads the top arrays of both operands without testing that they
\* are allocated
bit_or_reads_null_root(bv1, bv2, s12, st1, st2) ==
    ~s12 /\ ~st1 /\ ~st2 /\ (~bv1.root \/ ~bv2.root)

bit_or(t, bv1, bv2, s12, st1, st2, opt_mode) ==
    LET td == Released(t)
        sub(i, blk_blk) ==
            LET a1 == ArgSub(bv1, i)
                a2 == ArgSub(bv2, i)
            IN  IF PtrEq(a1, a2) THEN a1
                ELSE IF a1.k = "F" \/ a2.k = "F" THEN FullSub
                ELSE Loop3(a1, a2, BothNull, combine_operation_block_or, opt_mode)
    IN  IF s12 THEN combine_operation_or(td, IF st2 THEN td ELSE bv2, st2)
        ELSE IF st1 THEN combine_operation_or(td, bv2, FALSE)
        ELSE IF st2 THEN combine_operation_or(td, bv1, FALSE)
        ELSE MapTop(Target3(t, bv1, bv2), sub)

bit_xor(t, bv1, bv2, s12, st1, st2, opt_mode) ==
    LET td == Released(t)
        sub(i, blk_blk) ==
            LET a1 == ArgSub(bv1, i)
                a2 == ArgSub(bv2, i)
            IN  IF PtrEq(a1, a2) THEN NullSub
                ELSE Loop3(a1, a2, PtrEq, combine_operation_block_xor, opt_mode)
    IN  IF s12 THEN td
        ELSE IF st1 THEN combine_operation_xor(td, bv2, FALSE)
        ELSE IF st2 THEN combine_operation_xor(td, bv1, FALSE)
        ELSE IF ~bv1.root THEN assign(td, bv2)
        ELSE IF ~bv2.root THEN assign(td, bv1)
        ELSE MapTop(Target3(t, bv1, bv2), sub)

bit_and(t, bv1, bv2, s12, st1, st2, opt_mode) ==
    LET sub(i, blk_blk) ==
            LET a1 == ArgSub(bv1, i)
                a2 == ArgSub(bv2, i)
            IN  IF PtrEq(a1, a2) THEN a1
                ELSE Loop3(a1, a2, BothNull, combine_operation_block_and, opt_mode)
    IN  IF s12 THEN combine_operation_or(t, bv1, st1)
        ELSE IF st1 THEN combine_operation_and(t, bv2, FALSE)
        ELSE IF st2 THEN combine_operation_and(t, bv1, FALSE)
        ELSE IF ~bv1.root \/ ~bv2.root THEN Released(t)
        ELSE MapTop(Target3(t, bv1, bv2), sub)

bit_sub(t, bv1, bv2, s12, st1, st2, opt_mode) ==
    LET td == Released(t)
        sub(i, blk_blk) ==
            LET a1 == ArgSub(bv1, i)
                a2 == ArgSub(bv2, i)
            IN  IF PtrEq(a1, a2) \/ a2.k = "F" THEN NullSub
                ELSE Loop3(a1, a2, BothNull, combine_operation_block_sub, opt_mode)
    IN  IF s12 THEN td
        ELSE IF st1 THEN combine_operation_sub(td, bv2, FALSE)
        ELSE IF st2 THEN combine_operation_sub(td, bv1, FALSE)
        ELSE IF ~bv1.root THEN td
        ELSE IF ~bv2.root THEN combine_operation_or(td, bv1, FALSE)
        ELSE MapTop(Target3(t, bv1, bv2), sub)

\* blocks_manager::move_from(bm): the released target swaps trees with bm
blockman_move_from(v, w) == [v EXCEPT !.root = w.root, !.top = w.top, !.tsize = w.tsize]

\* what blocks_manager::move_from leaves in the donor
blockman_moved_out(v, w) == [w EXCEPT !.root = FALSE, !.top = EmptyTop, !.tsize = v.tsize]

\* bvector::move_from(bvect), for a different vector
move_from(v, w) ==
    [blockman_move_from(v, w) EXCEPT !.size = w.size, !.strat = w.strat]

\* merge(bv): the new value of the target
merge(v, w) ==
    LET t == reserve_top_blocks(GrowSize(v, w), w.tsize)
        sub(i, blk_blk) ==
            LET blk_blk_arg == ArgSub(w, i)
            IN  IF PtrEq(blk_blk, blk_blk_arg) \/ blk_blk_arg.k = "N" THEN blk_blk
                ELSE IF blk_blk.k = "N" THEN blk_blk_arg
                ELSE IF blk_blk.k = "F" THEN blk_blk
                ELSE IF blk_blk_arg.k = "F" THEN FullSub
                ELSE ArrSub([j \in SubIdx |->
                        IF PtrEq(blk_blk.a[j], blk_blk_arg.a[j]) THEN blk_blk.a[j]
                        ELSE IF blk_blk.a[j].k = "N" THEN blk_blk_arg.a[j]
                        ELSE combine_operation_block_or2(blk_blk.a[j], blk_blk_arg.a[j])])
    IN  IF ~w.root THEN move_from(v, w) ELSE MapTop(t, sub)

\* merge(bv): what is left in the donor, whose transferred slots are zeroed
merge_donor(v, w) ==
    LET t == reserve_top_blocks(GrowSize(v, w), w.tsize)
        sub(i, blk_blk_arg) ==
            LET blk_blk == t.top[i]
            IN  IF PtrEq(blk_blk, blk_blk_arg) \/ blk_blk_arg.k = "N" THEN blk_blk_arg
                ELSE IF blk_blk.k = "N" THEN NullSub
                ELSE IF blk_blk.k = "F" \/ blk_blk_arg.k = "F" THEN blk_blk_arg
                ELSE ArrSub([j \in SubIdx |->
                        IF ~PtrEq(blk_blk.a[j], blk_blk_arg.a[j]) /\ blk_blk.a[j].k = "N"
                        THEN NullBlk ELSE blk_blk_arg.a[j]])
    IN  IF ~w.root THEN blockman_moved_out(v, w) ELSE MapTop(w, sub)

----------------------------------------------------------------------------
(* Single-bit writes, invert, optimize, copy_range, count, compare *)

\* blocks_manager::check_allocate_block(nb, val, strat, &block_type): the
\* tree with a concrete block in slot nb, unless the slot already reads val
check_allocate_block(v, nb, val, strat) ==
    LET blk == get_block_nb(v, nb)
        fill == IF IS_FULL_BLOCK(blk) THEN BitIdx ELSE {}
    IN  IF IS_VALID_ADDR(blk) THEN v
        ELSE IF IS_FULL_BLOCK(blk) = val THEN v
        ELSE set_block(v, nb, IF strat = "BM_GAP" THEN GapBlk(fill) ELSE BitBlk(fill))

\* gap_block_set / bit-word update of set_bit_no_check on a concrete block
block_set_bit(blk, nbit, val) ==
    LET x == IF val THEN blk.b \cup {nbit} ELSE blk.b \ {nbit}
    IN  IF BM_IS_GAP(blk) THEN GapStore(x) ELSE BitBlk(x)

set_bit_no_check(v, n, val) ==
    LET nblock == n \div bits_in_block
        w == check_allocate_block(v, nblock, val, v.strat)
        blk == get_block_nb(w, nblock)
    IN  IF ~IS_VALID_ADDR(blk) THEN w
        ELSE set_block(w, nblock, block_set_bit(blk, n % bits_in_block, val))

\* set_bit(n, val), n < id_max
set_bit(v, n, val) ==
    LET w == init_tree(v)
    IN  set_bit_no_check(IF n >= w.size THEN resize(w, n + 1) ELSE w, n, val)

invert(v) ==
    LET t == reserve_top_blocks(v, set_top_array_size)
        blkinv(blk) ==
            CASE blk.k = "N" -> FullBlk
              [] blk.k = "F" -> NullBlk
              [] blk.k = "G" -> GapBlk(BitIdx \ blk.b)
              [] OTHER -> BitBlk(BitIdx \ blk.b)
        sub(i, blk_blk) ==
            CASE blk_blk.k = "N" -> FullSub
              [] blk_blk.k = "F" -> NullSub
              [] OTHER -> ArrSub([j \in SubIdx |-> blkinv(blk_blk.a[j])])
        u == MapTop(t, sub)
    IN  IF u.size = id_max THEN set_bit_no_check(u, id_max, FALSE)
        ELSE clear_range_no_check(u, u.size, id_max)

OptRank(opt_mode) ==
    CASE opt_mode = "none" -> 0
      [] opt_mode = "free_0" -> 1
      [] opt_mode = "free_01" -> 2
      [] OTHER -> 3

\* blocks_manager::optimize_tree(temp, opt_mode, stat)
optimize_tree(v, opt_mode) ==
    LET rk == OptRank(opt_mode)
        blkopt(blk) ==
            IF ~IS_VALID_ADDR(blk) THEN blk
            ELSE IF rk >= 1 /\ blk.b = {} THEN NullBlk
            ELSE IF rk >= 2 /\ blk.b = BitIdx THEN FullBlk
            ELSE IF rk >= 3 /\ blk.k = "B" /\ GapLen(blk.b) <= gap_max_len THEN GapBlk(blk.b)
            ELSE blk
        sub(i, blk_blk) ==
            LET a == [j \in SubIdx |-> blkopt(blk_blk.a[j])]
            IN  IF blk_blk.k # "A" THEN blk_blk
                ELSE IF rk >= 1 /\ a = NullArr THEN NullSub
                ELSE IF rk >= 2 /\ a = FullArr THEN FullSub
                ELSE ArrSub(a)
    IN  MapTop(v, sub)

\* optimize that releases the tree where the code releases the temp block
optimize_releasing_tree(v, opt_mode) ==
    IF ~v.root THEN v ELSE deinit_tree(optimize_tree(v, opt_mode))

\* optimize(temp_block, opt_mode, stat)
optimize(v, opt_mode) == IF ~v.root THEN v ELSE optimize_tree(v, opt_mode)

\* blocks_manager::copy(other, block_from, block_to) into a released tree
copy_blocks(v, w, nbl, nbr) ==
    LET t == reserve_top_blocks(v, w.tsize)
        i_to == Min2(BlockI(nbr), w.tsize - 1)
        nb_to == IF BlockI(nbr) >= w.tsize - 1 THEN w.tsize * set_sub_array_size - 1 ELSE nbr
        sub(i, blk_blk) ==
            LET arg == w.top[i]
            IN  IF i < BlockI(nbl) \/ i > i_to \/ arg.k = "N" THEN blk_blk
                ELSE IF arg.k = "F" THEN FullSub
                ELSE ArrSub([j \in SubIdx |->
                        IF i * set_sub_array_size + j \in nbl .. nb_to
                        THEN arg.a[j] ELSE NullBlk])
    IN  IF ~w.root THEN v ELSE MapTop(t, sub)

\* the left flank starts at 0 unless left + gap_max_bits wraps around, which
\* it does for a left within the last block of the address space
copy_range_no_check(v, bvect, left, right) ==
    LET c == copy_blocks(v, bvect, left \div bits_in_block, right \div bits_in_block)
        from == IF left + bits_in_block <= id_max THEN 0 ELSE left - bits_in_block
        c1 == IF left > 0 THEN clear_range_no_check(c, from, left - 1) ELSE c
    IN  IF right < id_max - 1 THEN clear_range_no_check(c1, right + 1, id_max - 1) ELSE c1

\* copy_range(bvect, left, right), for a different vector
copy_range(v, bvect, left, right) ==
    IF ~bvect.root THEN clear(v)
    ELSE copy_range_no_check(Released(v), bvect, Min2(left, right), Max2(left, right))

RECURSIVE SumTo(_, _)
SumTo(f(_), n) == IF n < 0 THEN 0 ELSE f(n) + SumTo(f, n - 1)

\* number of set bits of block nb
bcount(v, nb) == Cardinality(get_block_nb(v, nb).b)

\* count(): the sum of the block counts over the allocated top array
count(v) ==
    LET f(nb) == bcount(v, nb)
    IN  IF ~v.root THEN 0 ELSE SumTo(f, v.tsize * set_sub_array_size - 1)

\* bitcmp / gapcmp: the vector holding the lowest differing position is greater
blockcmp(s1, s2) ==
    LET d == (s1 \ s2) \cup (s2 \ s1)
        lo == CHOOSE n \in d : \A m \in d : n <= m
    IN  IF d = {} THEN 0 ELSE IF lo \in s1 THEN 1 ELSE -1

\* a block comparison that takes a missing block to differ from any block
compare_block_by_slot(blk, arg_blk) ==
    IF PtrEq(blk, arg_blk) THEN 0
    ELSE IF blk.k = "N" THEN -1
    ELSE IF arg_blk.k = "N" THEN 1
    ELSE blockcmp(blk.b, arg_blk.b)

\* the body of the block loop of compare for one pair of slots
compare_block(blk, arg_blk) ==
    IF PtrEq(blk, arg_blk) THEN 0
    ELSE IF blk.k = "N" THEN (IF arg_blk.b # {} THEN -1 ELSE 0)
    ELSE IF arg_blk.k = "N" THEN (IF blk.b # {} THEN 1 ELSE 0)
    ELSE blockcmp(blk.b, arg_blk.b)

RECURSIVE compare_from(_, _, _)
compare_from(v, bv2, nb) ==
    LET i == BlockI(nb)
        blk_blk == get_topblock(v, i)
        arg_blk_blk == get_topblock(bv2, i)
        res == IF PtrEq(blk_blk, arg_blk_blk) THEN 0
               ELSE compare_block(blk_blk.a[BlockJ(nb)], arg_blk_blk.a[BlockJ(nb)])
    IN  IF nb >= Max2(v.tsize, bv2.tsize) * set_sub_array_size THEN 0
        ELSE IF res # 0 THEN res
        ELSE compare_from(v, bv2, nb + 1)

\* compare(bv) against a different vector
compare(v, bv2) == compare_from(v, bv2, 0)

----------------------------------------------------------------------------
(* Sampled vectors: every block kind in slot (0, 0) or (0, 1), next to     *)
(* NULL, FULL and allocated neighbours, in one- and two-entry top arrays.  *)

Odd == {n \in BitIdx : n % 2 = 1}

BlockValues ==
    {NullBlk, FullBlk, BitBlk({}), BitBlk({0}), BitBlk(Odd), BitBlk(BitIdx),
     BitBlk(0 .. 4), GapBlk({}), GapBlk(2 .. 5), GapBlk({0} \cup (5 .. 9)),
     GapBlk(BitIdx), GapBlk({9})}

Arr2(x, y) == [j \in SubIdx |-> IF j = 0 THEN x ELSE y]

Top1(s0) == [i \in 0 .. 0 |-> s0]

Top2(s0, s1) == [i \in 0 .. 1 |-> IF i = 0 THEN s0 ELSE s1]

Vec(top, n, sz) == [root |-> TRUE, top |-> top, tsize |-> n, size |-> sz, strat |-> "BM_BIT"]

Layouts ==
    {NewVector(id_max, "BM_BIT"), NewVector(15, "BM_GAP"),
     Vec(Top2(FullSub, NullSub), 2, id_max),
     Vec(Top2(FullSub, ArrSub(Arr2(BitBlk(Odd), NullBlk))), 2, id_max),
     Vec(Top2(NullSub, ArrSub(Arr2(BitBlk(Odd), GapBlk(2 .. 5)))), 2, id_max)}
    \cup {Vec(Top2(ArrSub(Arr2(x, NullBlk)), NullSub), 2, id_max) : x \in BlockValues}
    \cup {Vec(Top2(ArrSub(Arr2(x, FullBlk)), ArrSub(Arr2(FullBlk, GapBlk(0 .. 8)))), 2, id_max) :
             x \in BlockValues}
    \cup {Vec(Top1(ArrSub(Arr2(GapBlk({0} \cup (5 .. 9)), x))), 1, 20) : x \in BlockValues}

TargetLayouts ==
    {NewVector(id_max, "BM_BIT"),
     Vec(Top2(ArrSub(Arr2(BitBlk(Odd), FullBlk)), ArrSub(Arr2(FullBlk, GapBlk(0 .. 8)))), 2, id_max),
     Vec(Top1(ArrSub(Arr2(GapBlk({0} \cup (5 .. 9)), GapBlk({9})))), 1, 20)}

OptModes == {"none", "free_01", "compress"}

----------------------------------------------------------------------------
(* The state: the vectors a, b and t, their values before the last call,   *)
(* and the last call with its arguments and outcome.                       *)

NoCall == [op |-> "init", tgt |-> "", x |-> "", y |-> "", mode |-> "",
           n |-> 0, m |-> 0, v |-> FALSE, ret |-> 0, fault |-> FALSE, step |-> 0]

Call(op, tgt, x, y, mode, fault) ==
    [NoCall EXCEPT !.op = op, !.tgt = tgt, !.x = x, !.y = y, !.mode = mode,
                   !.fault = fault, !.step = last.step + 1]

InitAlg ==
    /\ \E la \in Layouts, lb \in Layouts, lt \in TargetLayouts :
           bv = [a |-> la, b |-> lb, t |-> lt]
    /\ pre = bv
    /\ last = NoCall

\* t.bit_or(x, y, opt_mode); the read through the NULL root of an operand
\* that was never allocated either faults or goes unnoticed
BitOr3 ==
    \E x \in {"a"}, y \in {"a", "b"}, mode \in OptModes, fault \in BOOLEAN :
        /\ last.op = "init"
        /\ fault => bit_or_reads_null_root(bv[x], bv[y], x = y, FALSE, FALSE)
        /\ bv' = [bv EXCEPT !.t = IF fault THEN Target3(bv.t, bv[x], bv[y])
                                  ELSE bit_or(bv.t, bv[x], bv[y], x = y, FALSE, FALSE, mode)]
        /\ pre' = bv
        /\ last' = Call("bit_or", "t", x, y, mode, fault)

BitXor3 ==
    \E x \in {"a"}, y \in {"a", "b"}, mode \in OptModes :
        /\ last.op = "init"
        /\ bv' = [bv EXCEPT !.t = bit_xor(bv.t, bv[x], bv[y], x = y, FALSE, FALSE, mode)]
        /\ pre' = bv
        /\ last' = Call("bit_xor", "t", x, y, mode, FALSE)

BitAnd3 ==
    \E x \in {"a"}, y \in {"a", "b"}, mode \in OptModes :
        /\ last.op = "init"
        /\ bv' = [bv EXCEPT !.t = bit_and(bv.t, bv[x], bv[y], x = y, FALSE, FALSE, mode)]
        /\ pre' = bv
        /\ last' = Call("bit_and", "t", x, y, mode, FALSE)

BitSub3 ==
    \E x \in {"a"}, y \in {"a", "b"}, mode \in OptModes :
        /\ last.op = "init"
        /\ bv' = [bv EXCEPT !.t = bit_sub(bv.t, bv[x], bv[y], x = y, FALSE, FALSE, mode)]
        /\ pre' = bv
        /\ last' = Call("bit_sub", "t", x, y, mode, FALSE)

\* the in-place calls a.bit_or(a), a.bit_xor(a), a.bit_and(a), a.bit_sub(a)
SelfOr ==
    /\ last.op = "init"
    /\ bv' = [bv EXCEPT !.a = combine_operation_or(bv.a, bv.a, TRUE)]
    /\ pre' = bv
    /\ last' = Call("or", "a", "a", "", "", FALSE)

SelfXor ==
    /\ last.op = "init"
    /\ bv' = [bv EXCEPT !.a = combine_operation_xor(bv.a, bv.a, TRUE)]
    /\ pre' = bv
    /\ last' = Call("xor", "a", "a", "", "", FALSE)

SelfAnd ==
    /\ last.op = "init"
    /\ bv' = [bv EXCEPT !.a = combine_operation_and(bv.a, bv.a, TRUE)]
    /\ pre' = bv
    /\ last' = Call("and", "a", "a", "", "", FALSE)

SelfSub ==
    /\ last.op = "init"
    /\ bv' = [bv EXCEPT !.a = combine_operation_sub(bv.a, bv.a, TRUE)]
    /\ pre' = bv
    /\ last' = Call("sub", "a", "a", "", "", FALSE)

\* a.merge(b)
Merge ==
    /\ last.op = "init"
    /\ bv' = [bv EXCEPT !.a = merge(bv.a, bv.b), !.b = merge_donor(bv.a, bv.b)]
    /\ pre' = bv
    /\ last' = Call("merge", "a", "b", "", "", FALSE)

\* a.compare(b), and b.compare(a) kept in m
CompareAB ==
    /\ last.op = "init"
    /\ bv' = bv
    /\ pre' = bv
    /\ last' = [Call("compare", "", "a", "b", "", FALSE)
                    EXCEPT !.ret = compare(bv.a, bv.b), !.m = compare(bv.b, bv.a)]

\* tgt.bit_or / bit_xor / bit_and / bit_sub(a, b, opt_mode) with the target
\* tgt being the operand a or the operand b itself
AliasedTarget3 ==
    \E op \in {"bit_or", "bit_xor", "bit_and", "bit_sub"}, tgt \in {"a", "b"}, mode \in OptModes :
        /\ last.op = "init"
        /\ bv' = [bv EXCEPT ![tgt] =
                CASE op = "bit_or" -> bit_or(bv[tgt], bv.a, bv.b, FALSE, tgt = "a", tgt = "b", mode)
                  [] op = "bit_xor" -> bit_xor(bv[tgt], bv.a, bv.b, FALSE, tgt = "a", tgt = "b", mode)
                  [] op = "bit_and" -> bit_and(bv[tgt], bv.a, bv.b, FALSE, tgt = "a", tgt = "b", mode)
                  [] OTHER -> bit_sub(bv[tgt], bv.a, bv.b, FALSE, tgt = "a", tgt = "b", mode)]
        /\ pre' = bv
        /\ last' = Call("aliased", tgt, "a", "b", mode, FALSE) @@ [op3 |-> op]

NextAlg ==
    \/ BitOr3 \/ BitXor3 \/ BitAnd3 \/ BitSub3
    \/ SelfOr \/ SelfXor \/ SelfAnd \/ SelfSub
    \/ Merge \/ CompareAB \/ AliasedTarget3

SpecAlg == InitAlg /\ [][NextAlg]_vars

----------------------------------------------------------------------------
(* Properties of the set algebra *)

Ops3 == {"bit_or", "bit_xor", "bit_and", "bit_sub"}

SetOp(op, s1, s2) ==
    CASE op \in {"bit_or", "or"} -> s1 \cup s2
      [] op \in {"bit_and", "and"} -> s1 \cap s2
      [] op \in {"bit_xor", "xor"} -> (s1 \ s2) \cup (s2 \ s1)
      [] OTHER -> s1 \ s2

C2_Idempotence ==
    /\ (last.op \in {"or", "and"} /\ last.x = last.tgt) => BitsOf(bv.a) = BitsOf(pre.a)
    /\ (last.op \in {"sub", "xor"} /\ last.x = last.tgt) => BitsOf(bv.a) = {}
    /\ (last.op \in {"bit_or", "bit_and"} /\ last.x = last.y)
           => BitsOf(bv.t) = BitsOf(pre[last.x])
    /\ (last.op \in {"bit_sub", "bit_xor"} /\ last.x = last.y) => BitsOf(bv.t) = {}

\* C3: three-operand algebra with one never-initialised operand and a
\* non-empty other operand x completes with the degenerate result:
\* or(empty, x) = or(x, empty) = x, and(empty, x) = and(x, empty) = empty,
\* sub(empty, x) = empty, sub(x, empty) = x.
C3_EmptyOperand ==
    (last.op \in {"bit_or", "bit_and", "bit_sub"} /\ last.x # last.y
        /\ (~pre[last.x].root \/ ~pre[last.y].root)
        /\ (BitsOf(pre[last.x]) # {} \/ BitsOf(pre[last.y]) # {}))
        => /\ ~last.fault
           /\ BitsOf(bv.t) = SetOp(last.op, BitsOf(pre[last.x]), BitsOf(pre[last.y]))

\* C4: after a.merge(b), a holds exactly the union of the bits a and b held
\* before the call, also for a b that was never initialised.
C4_MergeIsUnion ==
    last.op = "merge" => BitsOf(bv.a) = BitsOf(pre.a) \cup BitsOf(pre.b)

----------------------------------------------------------------------------
(* Sequences of public calls on the vector a, with b as the argument of    *)
(* the calls that take a second vector.                                    *)

\* the number of calls of one run
MaxSteps == 3

OptModesAll == {"none", "free_0", "free_01", "compress"}

\* positions and intervals of the calls: in the first block, across a block
\* border, in the second sub-array, below and above the size of 15
Positions == {0, 12, 25}

Intervals == {<<3, 12>>, <<10, 29>>, <<0, 38>>}

Sizes == {5, 20, id_max}

CopyIntervals == {<<0, 30>>, <<12, 17>>}

Init ==
    /\ \E la \in {NewVector(15, "BM_BIT"), NewVector(id_max, "BM_GAP"),
                  Vec(Top2(ArrSub(Arr2(BitBlk(BitIdx), GapBlk(BitIdx))),
                           ArrSub(Arr2(BitBlk(0 .. 4), GapBlk({})))), 2, id_max)},
          lb \in {Vec(Top2(ArrSub(Arr2(BitBlk(Odd), FullBlk)),
                           ArrSub(Arr2(FullBlk, GapBlk(0 .. 8)))), 2, id_max),
                  Vec(Top1(ArrSub(Arr2(GapBlk({0} \cup (5 .. 9)), GapBlk({9})))), 1, 20)} :
           bv = [a |-> la, b |-> lb, t |-> NewVector(id_max, "BM_BIT")]
    /\ pre = bv
    /\ last = NoCall

Running == last.step < MaxSteps /\ ~last.fault

\* a.set_bit(n, val); clear_bit(n) is set_bit(n, false)
SetBit ==
    \E n \in Positions, val \in BOOLEAN :
        /\ Running
        /\ bv' = [bv EXCEPT !.a = set_bit(bv.a, n, val)]
        /\ pre' = bv
        /\ last' = [Call("set_bit", "a", "", "", "", FALSE) EXCEPT !.n = n, !.v = val]

\* a.set_range(left, right, value)
SetRange ==
    \E lr \in Intervals, val \in BOOLEAN :
        /\ Running
        /\ bv' = [bv EXCEPT !.a = set_range(bv.a, lr[1], lr[2], val)]
        /\ pre' = bv
        /\ last' = [Call("set_range", "a", "", "", "", FALSE)
                        EXCEPT !.n = lr[1], !.m = lr[2], !.v = val]

\* a.resize(new_size)
Resize ==
    \E n \in Sizes :
        /\ Running
        /\ bv' = [bv EXCEPT !.a = resize(bv.a, n)]
        /\ pre' = bv
        /\ last' = [Call("resize", "a", "", "", "", FALSE) EXCEPT !.n = n]

\* a.invert()
Invert ==
    /\ Running
    /\ bv' = [bv EXCEPT !.a = invert(bv.a)]
    /\ pre' = bv
    /\ last' = Call("invert", "a", "", "", "", FALSE)

\* a.optimize(temp_block, opt_mode, stat)
Optimize ==
    \E mode \in OptModesAll :
        /\ Running
        /\ bv' = [bv EXCEPT !.a = optimize(bv.a, mode)]
        /\ pre' = bv
        /\ last' = Call("optimize", "a", "", "", mode, FALSE)

\* a.copy_range(b, left, right)
CopyRange ==
    \E lr \in CopyIntervals :
        /\ Running
        /\ bv' = [bv EXCEPT !.a = copy_range(bv.a, bv.b, lr[1], lr[2])]
        /\ pre' = bv
        /\ last' = [Call("copy_range", "a", "b", "", "", FALSE) EXCEPT !.n = lr[1], !.m = lr[2]]

\* the in-place calls a.bit_or(b), a.bit_xor(b), a.bit_and(b), a.bit_sub(b)
Combine ==
    \E op \in {"or", "xor", "and", "sub"} :
        /\ Running
        /\ bv' = [bv EXCEPT !.a =
                    CASE op = "or" -> combine_operation_or(bv.a, bv.b, FALSE)
                      [] op = "xor" -> combine_operation_xor(bv.a, bv.b, FALSE)
                      [] op = "and" -> combine_operation_and(bv.a, bv.b, FALSE)
                      [] OTHER -> combine_operation_sub(bv.a, bv.b, FALSE)]
        /\ pre' = bv
        /\ last' = Call(op, "a", "b", "", "", FALSE)

\* a.merge(b), which also takes blocks out of b
MergeB ==
    /\ Running
    /\ bv' = [bv EXCEPT !.a = merge(bv.a, bv.b), !.b = merge_donor(bv.a, bv.b)]
    /\ pre' = bv
    /\ last' = Call("merge", "a", "b", "", "", FALSE)

Next ==
    \/ SetBit \/ SetRange \/ Resize \/ Invert \/ Optimize
    \/ CopyRange \/ Combine \/ MergeB

Spec == Init /\ [][Next]_vars

----------------------------------------------------------------------------
(* Properties of size, writes, invert and optimize *)

\* C5: after any sequence of set_bit, clear_bit, set_range, resize, invert,
\* optimize, copy_range, in-place algebra and merge calls, no vector holds a
\* set bit at a position >= its size().
C5_NoBitBeyondSize ==
    \A x \in {"a", "b"} : \A n \in BitsOf(bv[x]) : n < bv[x].size

\* C6: a write beyond the size fails without modifying the vector: after
\* set_bit(n, v) with n >= size() and after set_range(l, r, v) with
\* r >= size(), the set of bits and size() are what they were before the call.
C6_OversizeWriteRejected ==
    (\/ last.op = "set_bit" /\ last.n >= pre.a.size
     \/ last.op = "set_range" /\ last.m >= pre.a.size)
        => /\ BitsOf(bv.a) = BitsOf(pre.a)
           /\ bv.a.size = pre.a.size

\* C7: invert() complements every position below size() and leaves every
\* position >= size() zero; count() after invert is size() minus the count
\* before it; and a second invert restores exactly the original set of bits.
C7_InvertComplements ==
    last.op = "invert"
        => /\ BitsOf(bv.a) = (0 .. (pre.a.size - 1)) \ BitsOf(pre.a)
           /\ count(bv.a) = pre.a.size - count(pre.a)
           /\ BitsOf(invert(bv.a)) = BitsOf(pre.a)

\* C8: optimize(temp, mode, stat), for each of the modes none, free_0, free_01
\* and compress, leaves test(n) unchanged at every position n and leaves
\* count(), size() and the set of bits unchanged, and the optimized vector
\* compares equal (0) to a copy taken before the call.
C8_OptimizePreserves ==
    last.op = "optimize"
        => /\ \A n \in 0 .. id_max : test(bv.a, n) = test(pre.a, n)
           /\ BitsOf(bv.a) = BitsOf(pre.a)
           /\ count(bv.a) = count(pre.a)
           /\ bv.a.size = pre.a.size
           /\ compare(bv.a, pre.a) = 0

\* an optimize call in mode compress on a vector holding an all-one, an
\* all-zero and a compressible bit-block: they became FULL, NULL and GAP
C8_Witness ==
    /\ last.op = "optimize" /\ last.mode = "compress"
    /\ \E nb \in 0 .. (set_total_blocks - 1) :
           /\ IS_VALID_ADDR(get_block_nb(pre.a, nb))
           /\ get_block_nb(pre.a, nb).b = BitIdx
           /\ get_block_nb(bv.a, nb).k = "F"
    /\ \E nb \in 0 .. (set_total_blocks - 1) :
           /\ IS_VALID_ADDR(get_block_nb(pre.a, nb))
           /\ get_block_nb(pre.a, nb).b = {}
           /\ get_block_nb(bv.a, nb).k = "N"
    /\ \E nb \in 0 .. (set_total_blocks - 1) :
           get_block_nb(pre.a, nb).k = "B" /\ get_block_nb(bv.a, nb).k = "G"
    /\ last.step = MaxSteps

----------------------------------------------------------------------------
(* Rank-select index (rs_index, bmrs.h) and the queries that use it.  The  *)
(* index is a record: total is the number of indexed blocks, bc the bit    *)
(* count of each block, first and second the counts of its sub-ranges      *)
(* [0, rs3_border0] and [rs3_border0 + 1, rs3_border1].                    *)

BlockIdx == 0 .. (set_total_blocks - 1)

\* rs_index::init
rs_init ==
    [total |-> 0, bc |-> [nb \in BlockIdx |-> 0],
     first |-> [nb \in BlockIdx |-> 0], second |-> [nb \in BlockIdx |-> 0]]

\* bit_block_calc_count_range / gap_bit_count_range(block, left, right)
bit_block_calc_count_range(s, left, right) == Cardinality(s \cap (left .. right))

\* rs_index::rcount(nb): bits of the blocks 0 .. nb
rs_rcount(rs, nb) ==
    LET f(k) == rs.bc[k]
    IN  SumTo(f, nb)

\* rs_index::count(): bits of all registered blocks
rs_count(rs) == rs_rcount(rs, set_total_blocks - 1)

\* rs_index::find_sub_range(block_bit_pos)
find_sub_range(nbit) ==
    IF nbit <= rs3_border0 THEN 0 ELSE IF nbit <= rs3_border1 THEN 1 ELSE 2

\* find_reverse(pos): the last set position of the allocated tree
find_reverse(v) ==
    LET s == BitsOf(v)
    IN  IF s = {} THEN [found |-> FALSE, pos |-> 0]
        ELSE [found |-> TRUE, pos |-> CHOOSE n \in s : \A m \in s : m <= n]

\* build_rs_index(rs_idx): sub-arrays up to the last non-NULL one are
\* registered; a NULL sub-array and a NULL block count zero
build_rs_index(v) ==
    LET last_bit == find_reverse(v)
        nb == last_bit.pos \div bits_in_block
        max_top_blocks ==
            LET used == {i \in 0 .. (v.tsize - 1) : v.top[i].k # "N"}
            IN  IF used = {} THEN 0 ELSE 1 + CHOOSE i \in used : \A k \in used : k <= i
        block(n) == IF BlockI(n) < max_top_blocks THEN get_block_nb(v, n) ELSE NullBlk
    IN  IF ~v.root \/ ~last_bit.found THEN rs_init
        ELSE [total |-> nb + 1,
              bc |-> [n \in BlockIdx |-> Cardinality(block(n).b)],
              first |-> [n \in BlockIdx |->
                            bit_block_calc_count_range(block(n).b, 0, rs3_border0)],
              second |-> [n \in BlockIdx |->
                            bit_block_calc_count_range(block(n).b, rs3_border0 + 1,
                                                       rs3_border1)]]

\* block_count_to without the first sub-range added in the middle range
block_count_to_dropping_first(block, nb, nbit_right, rs) ==
    IF find_sub_range(nbit_right) = 1 /\ nbit_right <= rs3_border0 + rs3_half_span
    THEN bit_block_calc_count_range(block.b, rs3_border0 + 1, nbit_right)
    ELSE bit_block_calc_count_range(block.b, 0, nbit_right)

\* block_count_to(block, nb, nbit_right, rs_idx), for a bit-block
block_count_to(block, nb, nbit_right, rs) ==
    LET first == rs.first[nb]
        second == rs.second[nb]
        bc_second_range == first + second
        cr(l, r) == bit_block_calc_count_range(block.b, l, r)
    IN  CASE find_sub_range(nbit_right) = 0 ->
                IF nbit_right <= rs3_border0 \div 2 THEN cr(0, nbit_right)
                ELSE IF nbit_right = rs3_border0 THEN first
                ELSE first - cr(nbit_right + 1, rs3_border0)
          [] find_sub_range(nbit_right) = 1 ->
                IF nbit_right <= rs3_border0 + rs3_half_span
                THEN cr(rs3_border0 + 1, nbit_right) + first
                ELSE IF nbit_right = rs3_border1 THEN bc_second_range
                ELSE bc_second_range - cr(nbit_right + 1, rs3_border1)
          [] OTHER ->
                IF nbit_right <= rs3_border1 + rs3_half_span
                THEN cr(rs3_border1 + 1, nbit_right) + bc_second_range
                ELSE IF nbit_right = bits_in_block - 1 THEN rs.bc[nb]
                ELSE rs.bc[nb] - cr(nbit_right + 1, bits_in_block - 1)

\* count_to(right, rs_idx), also rank(n, rs_idx)
count_to(v, right, rs) ==
    LET nblock_right == right \div bits_in_block
        nbit_right == right % bits_in_block
        cnt == IF nblock_right > 0 THEN rs_rcount(rs, nblock_right - 1) ELSE 0
        block == get_block_nb(v, nblock_right)
    IN  IF ~v.root THEN 0
        ELSE IF nblock_right >= rs.total THEN rs_count(rs)
        ELSE IF block.k = "N" THEN cnt
        ELSE IF BM_IS_GAP(block) THEN cnt + bit_block_calc_count_range(block.b, 0, nbit_right)
        ELSE IF IS_FULL_BLOCK(block) THEN cnt + nbit_right + 1
        ELSE cnt + block_count_to(block, nblock_right, nbit_right, rs)

\* count_range(left, right), left <= right
count_range(v, left, right) ==
    LET nblock_left == left \div bits_in_block
        nblock_right == right \div bits_in_block
        nbit_left == left % bits_in_block
        nbit_right == right % bits_in_block
        r == IF nblock_left = nblock_right THEN nbit_right ELSE bits_in_block - 1
        c_left == bit_block_calc_count_range(get_block_nb(v, nblock_left).b, nbit_left, r)
        inner(nb) == IF nb > nblock_left /\ nb < nblock_right THEN bcount(v, nb) ELSE 0
        c_right == bit_block_calc_count_range(get_block_nb(v, nblock_right).b, 0, nbit_right)
    IN  IF ~v.root THEN 0
        ELSE IF nblock_left = nblock_right THEN c_left
        ELSE c_left + SumTo(inner, v.tsize * set_sub_array_size - 1) + c_right

\* count_range(left, right, rs_idx), left <= right
count_range_rs(v, left, right, rs) ==
    IF left = right THEN (IF test(v, left) THEN 1 ELSE 0)
    ELSE count_to(v, right, rs) - (IF left > 0 THEN count_to(v, left - 1, rs) ELSE 0)

\* rs_index::find(&rank, &nb, &sub_range): the first block whose running
\* count reaches the rank, the start of the sub-range holding it and the
\* rank left within that sub-range
rs_find(rs, rank) ==
    LET hit == {n \in BlockIdx : rs_rcount(rs, n) >= rank}
        nb == CHOOSE n \in hit : \A m \in hit : n <= m
        r0 == rank - (IF nb > 0 THEN rs_rcount(rs, nb - 1) ELSE 0)
    IN  IF hit = {} THEN [found |-> FALSE, nb |-> 0, rank |-> rank, sub_range |-> 0]
        ELSE IF r0 <= rs.first[nb]
             THEN [found |-> TRUE, nb |-> nb, rank |-> r0, sub_range |-> 0]
        ELSE IF r0 <= rs.first[nb] + rs.second[nb]
             THEN [found |-> TRUE, nb |-> nb, rank |-> r0 - rs.first[nb],
                   sub_range |-> rs3_border0 + 1]
        ELSE [found |-> TRUE, nb |-> nb, rank |-> r0 - rs.first[nb] - rs.second[nb],
              sub_range |-> rs3_border1 + 1]

\* bm::block_find_rank(block, rank, nbit_from, nbit_pos): the rank left over
\* (0 when found) and the position of the rank-th set bit from nbit_from on
block_find_rank(s, rank, nbit_from) ==
    LET tail == {n \in s : n >= nbit_from}
        hit == {n \in tail : Cardinality({m \in tail : m <= n}) = rank}
    IN  IF hit = {} THEN [rank |-> rank - Cardinality(tail), bit_pos |-> 0]
        ELSE [rank |-> 0, bit_pos |-> CHOOSE n \in hit : TRUE]

\* select that leaves out the base position of the block
select_without_block_base(v, rank_in, pos, rs) ==
    IF rank_in = 0 \/ ~v.root \/ rs_count(rs) < rank_in THEN [ret |-> FALSE, pos |-> pos]
    ELSE LET f == rs_find(rs, rank_in)
         IN  [ret |-> f.found,
              pos |-> block_find_rank(get_block_nb(v, f.nb).b, f.rank, f.sub_range).bit_pos]

\* select(rank_in, pos, rs_idx): pos is written only when the rank is found
select(v, rank_in, pos, rs) ==
    LET f == rs_find(rs, rank_in)
        block == get_block_nb(v, f.nb)
        r == block_find_rank(block.b, f.rank, f.sub_range)
    IN  IF rank_in = 0 \/ ~v.root \/ rs_count(rs) < rank_in THEN [ret |-> FALSE, pos |-> pos]
        ELSE IF ~f.found THEN [ret |-> FALSE, pos |-> pos]
        ELSE [ret |-> TRUE, pos |-> r.bit_pos + f.nb * bits_in_block]

----------------------------------------------------------------------------
(* Queries on a vector through an index built from it: the vector is one   *)
(* of the sampled layouts, possibly after one more write; build_rs_index   *)
(* fills the index and one query follows.                                  *)

QueryPositions == 0 .. (id_max - 1)

Ranks == 0 .. (id_max + 1)

\* left ends of the counted ranges: the first and the last position of a
\* block and the positions next to its sub-range borders
LeftPositions == {l \in QueryPositions : l % bits_in_block \in {0, 1, 4, 7, 9}}

InitRS ==
    /\ \E la \in Layouts : bv = [a |-> la, rs |-> rs_init]
    /\ pre = bv
    /\ last = NoCall

\* a.set_bit(n, val) before the index is built
SetBitRS ==
    \E w \in {<<2, FALSE>>, <<38, TRUE>>} :
        /\ last.op = "init"
        /\ bv' = [bv EXCEPT !.a = set_bit(bv.a, w[1], w[2])]
        /\ pre' = bv
        /\ last' = [Call("set_bit", "a", "", "", "", FALSE) EXCEPT !.n = w[1], !.v = w[2]]

\* a.build_rs_index(&rs)
BuildRsIndex ==
    /\ last.op \in {"init", "set_bit"}
    /\ bv' = [bv EXCEPT !.rs = build_rs_index(bv.a)]
    /\ pre' = bv
    /\ last' = Call("build_rs_index", "rs", "a", "", "", FALSE)

\* a.count_to(n, rs), which is also a.rank(n, rs)
CountTo ==
    \E n \in QueryPositions :
        /\ last.op = "build_rs_index"
        /\ UNCHANGED bv
        /\ pre' = bv
        /\ last' = [Call("count_to", "", "a", "", "", FALSE)
                        EXCEPT !.n = n, !.ret = count_to(bv.a, n, bv.rs)]

\* a.select(rank, pos, rs), pos holding id_max before the call
Select ==
    \E r \in Ranks :
        /\ last.op = "build_rs_index"
        /\ UNCHANGED bv
        /\ pre' = bv
        /\ last' = [Call("select", "", "a", "", "", FALSE)
                        EXCEPT !.n = r, !.v = select(bv.a, r, id_max, bv.rs).ret,
                               !.ret = select(bv.a, r, id_max, bv.rs).pos]

\* a.count_range(left, right)
CountRange ==
    \E l \in LeftPositions, r \in QueryPositions :
        /\ last.op = "build_rs_index"
        /\ l <= r
        /\ UNCHANGED bv
        /\ pre' = bv
        /\ last' = [Call("count_range", "", "a", "", "", FALSE)
                        EXCEPT !.n = l, !.m = r, !.ret = count_range(bv.a, l, r)]

\* a.count_range(left, right, rs)
CountRangeRS ==
    \E l \in LeftPositions, r \in QueryPositions :
        /\ last.op = "build_rs_index"
        /\ l <= r
        /\ UNCHANGED bv
        /\ pre' = bv
        /\ last' = [Call("count_range_rs", "", "a", "", "", FALSE)
                        EXCEPT !.n = l, !.m = r, !.ret = count_range_rs(bv.a, l, r, bv.rs)]

NextRS == SetBitRS \/ BuildRsIndex \/ CountTo \/ Select \/ CountRange \/ CountRangeRS

SpecRS == InitRS /\ [][NextRS]_vars

----------------------------------------------------------------------------
(* Properties of rank, select and the range counts *)

\* the number of set positions p with l <= p <= r
NaiveCount(v, l, r) == Cardinality({p \in BitsOf(v) : l <= p /\ p <= r})

\* C9: with an index freshly built from the vector, select(rank(i)) returns
\* true with pos = i for every set position i; select(r) returns true with
\* rank(pos) = r for every 1 <= r <= count(); and select(r) returns false
\* for r = 0 and for r > count().
C9_SelectRank ==
    /\ (last.op = "count_to" /\ test(bv.a, last.n))
           => select(bv.a, last.ret, id_max, bv.rs) = [ret |-> TRUE, pos |-> last.n]
    /\ (last.op = "select" /\ 1 <= last.n /\ last.n <= count(bv.a))
           => last.v /\ count_to(bv.a, last.ret, bv.rs) = last.n
    /\ (last.op = "select" /\ (last.n = 0 \/ last.n > count(bv.a))) => ~last.v

\* a select that found its rank in the last sub-range of a bit-block that
\* is not the first block, with FULL or GAP blocks before it
C9_Witness ==
    /\ last.op = "select" /\ last.v
    /\ last.ret \div bits_in_block >= 1
    /\ last.ret % bits_in_block > rs3_border1
    /\ get_block_nb(bv.a, last.ret \div bits_in_block).k = "B"
    /\ get_block_nb(bv.a, 0).k \in {"F", "G"}
    /\ last.n < count(bv.a)

\* C10: for every l <= r below id_max, count_range(l, r), count_range(l, r, rs)
\* and count_to(r, rs) - count_to(l - 1, rs), with count_to(-1) taken as 0,
\* all equal the number of set positions p with l <= p <= r.
C10_RangeCounts ==
    /\ last.op \in {"count_range", "count_range_rs"}
           => last.ret = NaiveCount(bv.a, last.n, last.m)
    /\ last.op = "count_to"
           => \A l \in 0 .. last.n :
                  last.ret - (IF l = 0 THEN 0 ELSE count_to(bv.a, l - 1, bv.rs))
                      = NaiveCount(bv.a, l, last.n)

\* an indexed range count from inside a GAP block to a position beyond the
\* last indexed block, across a bit-block
C10_Witness ==
    /\ last.op = "count_range_rs"
    /\ last.n > 0 /\ last.n % bits_in_block \notin {0, bits_in_block - 1}
    /\ get_block_nb(bv.a, last.n \div bits_in_block).k = "G"
    /\ last.m \div bits_in_block >= bv.rs.total
    /\ \E nb \in BlockIdx : nb < bv.rs.total /\ get_block_nb(bv.a, nb).k = "B"
                              /\ nb > last.n \div bits_in_block
    /\ last.ret > 0 /\ last.ret < count(bv.a)

----------------------------------------------------------------------------
(* insert, erase, shift_right, shift_left.  The calls return the vector    *)
(* and the carry as a record [v, co].                                      *)

\* bm::bit_block_insert(block, nbit, value): the positions from nbit on move
\* up by one, value goes to nbit, the old top position is the carry out;
\* bit_block_shift_r1_unr and gap_shift_r1 are the case nbit = 0
bit_block_insert(s, nbit, value) ==
    [s |-> {p \in s : p < nbit} \cup (IF value THEN {nbit} ELSE {})
              \cup {p + 1 : p \in {q \in s : q >= nbit /\ q < bits_in_block - 1}},
     co |-> (bits_in_block - 1) \in s]

\* bm::bit_block_erase(block, nbit, carry_over): the positions above nbit
\* move down by one, carry_over goes to the top position;
\* bit_block_shift_l1_unr and gap_shift_l1 are the case nbit = 0, their
\* carry out is the old position 0
bit_block_erase(s, nbit, carry_over) ==
    {p \in s : p < nbit} \cup {p - 1 : p \in {q \in s : q > nbit}}
        \cup (IF carry_over THEN {bits_in_block - 1} ELSE {})

\* the do-while over the blocks j .. of sub-array i in insert
RECURSIVE insert_blocks(_, _, _, _)
insert_blocks(v, i, j, carry_over) ==
    LET nblock == i * set_sub_array_size + j
        block == get_block(v, i, j)
        w == IF carry_over THEN set_bit_no_check(v, nblock * bits_in_block, TRUE) ELSE v
        nxt == {jj \in (j + 1) .. (set_sub_array_size - 1) : get_block(w, i, jj).k # "N"}
        r == bit_block_insert(block.b, 0, carry_over)
    IN  IF j >= set_sub_array_size THEN [v |-> v, co |-> carry_over]
        ELSE IF block.k = "N"
             THEN IF nxt = {} THEN [v |-> w, co |-> FALSE]
                  ELSE insert_blocks(w, i, CHOOSE jj \in nxt : \A k \in nxt : jj <= k, FALSE)
        ELSE IF IS_FULL_BLOCK(block)
             THEN IF carry_over THEN insert_blocks(v, i, j + 1, TRUE)
                  ELSE insert_blocks(set_block(v, nblock, BitBlk(BitIdx \ {0})), i, j + 1, TRUE)
        ELSE IF BM_IS_GAP(block) /\ nblock # set_total_blocks - 1
             THEN insert_blocks(set_block(v, nblock, GapStore(r.s)), i, j + 1, r.co)
        ELSE IF nblock = set_total_blocks - 1
             THEN [v |-> set_block(v, nblock,
                            IF r.s = {} THEN NullBlk
                            ELSE BitBlk(r.s \ {bits_in_block - 1})),
                   co |-> (bits_in_block - 1) \in r.s]
        ELSE insert_blocks(set_block(v, nblock, ZeroOrBit(r.s)), i, j + 1, r.co)

\* the loop over the sub-arrays i .. in insert; nb is the block the loop
\* was entered at
RECURSIVE insert_top(_, _, _, _, _)
insert_top(v, i, j0, nb, carry_over) ==
    LET blk_blk == get_topblock(v, i)
        w == IF blk_blk.k = "F" THEN [v EXCEPT !.top[i] = ArrSub(FullArr)] ELSE v
        r == insert_blocks(w, i, j0, carry_over)
    IN  IF i >= set_top_array_size THEN [v |-> v, co |-> carry_over]
        ELSE IF i >= v.tsize /\ ~carry_over THEN [v |-> v, co |-> carry_over]
        ELSE IF blk_blk.k = "N"
             THEN IF carry_over /\ i * set_sub_array_size > nb
                  THEN insert_top(set_block(v, i * set_sub_array_size, BitBlk({0})),
                                  i + 1, j0, nb, FALSE)
                  ELSE insert_top(v, i + 1, j0, nb, carry_over)
        ELSE IF blk_blk.k = "F" /\ carry_over THEN insert_top(v, i + 1, j0, nb, carry_over)
        ELSE insert_top(r.v, i + 1, 0, nb, r.co)

\* an insert whose block loop always starts after the block of n, also for
\* the plain shift, which has not processed that block
insert_skipping_first_block(v, n, value) ==
    LET v1 == [v EXCEPT !.size = IF v.size < id_max THEN v.size + 1 ELSE v.size]
        nb == n \div bits_in_block
        block == get_block_nb(v1, nb)
        skip == (n = 0 /\ ~value) \/ (block.k = "N" /\ ~value)
        r == bit_block_insert(block.b, n % bits_in_block, value)
        v2 == IF skip THEN v1 ELSE set_block(v1, nb, BitBlk(r.s))
    IN  IF ~v.root THEN [v |-> IF value THEN set_bit(v1, n, TRUE) ELSE v1, co |-> FALSE]
        ELSE insert_top(v2, BlockI(nb + 1), BlockJ(nb + 1), nb + 1, ~skip /\ r.co)

\* insert(n, value), n < id_max
insert(v, n, value) ==
    LET v1 == [v EXCEPT !.size = IF v.size < id_max THEN v.size + 1 ELSE v.size]
        nb == n \div bits_in_block
        shift == n = 0 /\ ~value
        block == get_block_nb(v1, nb)
        skip == shift \/ (block.k = "N" /\ ~value)
        r == bit_block_insert(block.b, n % bits_in_block, value)
        v2 == IF skip THEN v1 ELSE set_block(v1, nb, BitBlk(r.s))
        nb1 == IF shift THEN nb ELSE nb + 1
    IN  IF ~v.root THEN [v |-> IF value THEN set_bit(v1, n, TRUE) ELSE v1, co |-> FALSE]
        ELSE insert_top(v2, BlockI(nb1), BlockJ(nb1), nb1, ~skip /\ r.co)

shift_right(v) == insert(v, 0, FALSE)

test_first_block_bit(v, nb) == nb < set_total_blocks /\ test(v, nb * bits_in_block)

\* the do-while over the blocks j .. of sub-array i in erase
RECURSIVE erase_blocks(_, _, _)
erase_blocks(v, i, j) ==
    LET nblock == i * set_sub_array_size + j
        block == get_block(v, i, j)
        nxt == {jj \in (j + 1) .. (set_sub_array_size - 1) : get_block(v, i, jj).k # "N"}
        ahead == test_first_block_bit(v, nblock + 1)
        s == bit_block_erase(block.b, 0, BM_IS_GAP(block) /\ ahead)
        w == CASE IS_FULL_BLOCK(block) ->
                    IF ahead THEN v
                    ELSE set_block(v, nblock, BitBlk(BitIdx \ {bits_in_block - 1}))
               [] BM_IS_GAP(block) ->
                    set_block(v, nblock,
                        IF GapLen(s) > gap_max_len THEN BitBlk(s)
                        ELSE IF s = {} THEN NullBlk ELSE GapBlk(s))
               [] OTHER -> set_block(v, nblock, ZeroOrBit(s))
    IN  IF j >= set_sub_array_size THEN v
        ELSE IF block.k = "N"
             THEN IF nxt = {}
                  THEN IF j = 0 THEN [v EXCEPT !.top[i] = NullSub] ELSE v
                  ELSE erase_blocks(v, i, CHOOSE jj \in nxt : \A k \in nxt : jj <= k)
        ELSE erase_blocks(
                 IF 0 \in block.b /\ nblock # 0
                 THEN set_bit_no_check(w, nblock * bits_in_block - 1, TRUE) ELSE w,
                 i, j + 1)

\* the loop over the sub-arrays i .. in erase
RECURSIVE erase_top(_, _, _)
erase_top(v, i, j0) ==
    LET blk_blk == get_topblock(v, i)
        w == IF blk_blk.k = "F" THEN [v EXCEPT !.top[i] = ArrSub(FullArr)] ELSE v
    IN  IF i >= set_top_array_size \/ i >= v.tsize THEN v
        ELSE IF blk_blk.k = "N" THEN erase_top(v, i + 1, j0)
        ELSE IF /\ blk_blk.k = "F" /\ i + 1 < set_top_array_size
                /\ test(v, (i + 1) * bits_in_block * set_sub_array_size)
             THEN erase_top(v, i + 1, j0)
        ELSE erase_top(erase_blocks(w, i, j0), i + 1, 0)

\* erase(n), n < id_max
erase(v, n) ==
    LET nb == n \div bits_in_block
        block == get_block_nb(v, nb)
        carry_over == test_first_block_bit(v, nb + 1)
        v1 == IF n = 0 THEN v
              ELSE IF block.k = "N"
                   THEN IF carry_over THEN set_block(v, nb, BitBlk({bits_in_block - 1}))
                        ELSE v
              ELSE set_block(v, nb, BitBlk(bit_block_erase(block.b, n % bits_in_block,
                                                           carry_over)))
        nb1 == IF n = 0 THEN nb ELSE nb + 1
    IN  IF ~v.root THEN v ELSE erase_top(v1, BlockI(nb1), BlockJ(nb1))

\* shift_left(): the vector after erase(0) and the old value of position 0
shift_left(v) == [v |-> erase(v, 0), co |-> test(v, 0)]

----------------------------------------------------------------------------
(* One insert or shift_right call on a sampled vector, followed by the     *)
(* erase or shift_left call that undoes it; or one erase or shift_left     *)
(* call alone.  After the undoing call, pre still holds the vector before  *)
(* the pair of calls.                                                      *)

\* positions of the calls: first, inner and last position of a block, in
\* every block
EditPositions == {0, 5, 9, 10, 15, 19, 20, 29, 30, id_max - 1}

InitEdit ==
    /\ \E la \in Layouts \cup {set_bit(NewVector(id_max, s), id_max - 1, TRUE) :
                                  s \in {"BM_BIT", "BM_GAP"}} :
           bv = [a |-> la]
    /\ pre = bv
    /\ last = NoCall

\* a.insert(n, value)
Insert ==
    \E n \in EditPositions, value \in BOOLEAN :
        LET r == insert(bv.a, n, value)
        IN  /\ last.op = "init"
            /\ bv' = [bv EXCEPT !.a = r.v]
            /\ pre' = bv
            /\ last' = [Call("insert", "a", "", "", "", FALSE)
                            EXCEPT !.n = n, !.v = value, !.ret = IF r.co THEN 1 ELSE 0]

\* a.shift_right()
ShiftRight ==
    LET r == shift_right(bv.a)
    IN  /\ last.op = "init"
        /\ bv' = [bv EXCEPT !.a = r.v]
        /\ pre' = bv
        /\ last' = [Call("shift_right", "a", "", "", "", FALSE)
                        EXCEPT !.ret = IF r.co THEN 1 ELSE 0]

\* a.erase(n), alone or at the position of the insert before it
Erase ==
    \E n \in EditPositions :
        /\ last.op = "init" \/ (last.op = "insert" /\ last.n = n)
        /\ bv' = [bv EXCEPT !.a = erase(bv.a, n)]
        /\ pre' = IF last.op = "init" THEN bv ELSE pre
        /\ last' = [Call("erase", "a", "", "", "", FALSE) EXCEPT !.n = n, !.v = last.v]

\* a.shift_left(), alone or after a shift_right
ShiftLeft ==
    LET r == shift_left(bv.a)
    IN  /\ last.op \in {"init", "shift_right"}
        /\ bv' = [bv EXCEPT !.a = r.v]
        /\ pre' = IF last.op = "init" THEN bv ELSE pre
        /\ last' = [Call("shift_left", "a", "", "", "", FALSE)
                        EXCEPT !.ret = IF r.co THEN 1 ELSE 0]

NextEdit == Insert \/ ShiftRight \/ Erase \/ ShiftLeft

SpecEdit == InitEdit /\ [][NextEdit]_vars

----------------------------------------------------------------------------
(* Properties of insert, erase and the shifts *)

\* the set s after an insert of value at n into an unbounded vector
InsertedAt(s, n, value) ==
    {p \in s : p < n} \cup (IF value THEN {n} ELSE {}) \cup {p + 1 : p \in {q \in s : q >= n}}

\* C11 as stated: shift_right() on a vector with a set bit at size()-1
\* returns carry 1 and position size()-1 is not set afterwards, while every
\* other set position p is set at p+1 afterwards.
C11_ShiftRightCarryAnySize ==
    (last.op = "shift_right" /\ test(pre.a, pre.a.size - 1))
        => /\ last.ret = 1
           /\ ~test(bv.a, pre.a.size - 1)
           /\ \A p \in BitsOf(pre.a) \ {pre.a.size - 1} : test(bv.a, p + 1)

\* C11: on a vector whose size() is id_max and whose position size()-1 is
\* set, shift_right() returns carry 1 and discards that bit: afterwards the
\* set positions are exactly the positions p+1 of every other position p
\* that was set, and none of them is >= size().
C11_ShiftRightCarry ==
    (last.op = "shift_right" /\ pre.a.size = id_max /\ test(pre.a, pre.a.size - 1))
        => /\ last.ret = 1
           /\ BitsOf(bv.a) = {p + 1 : p \in BitsOf(pre.a) \ {pre.a.size - 1}}
           /\ \A p \in BitsOf(bv.a) : p < bv.a.size

\* a shift_right that carried out of a vector holding FULL and GAP blocks,
\* with position size()-2 set as well, so that size()-1 is set again
C11_Witness ==
    /\ last.op = "shift_right" /\ pre.a.size = id_max /\ last.ret = 1
    /\ test(pre.a, id_max - 1) /\ test(pre.a, id_max - 2) /\ test(bv.a, id_max - 1)
    /\ \E nb \in BlockIdx : get_block_nb(pre.a, nb).k = "F"
    /\ \E nb \in BlockIdx : get_block_nb(pre.a, nb).k = "G"

\* C12: on a vector whose size is id_max, insert(n, v) for every n
\* (shift_right being n = 0, v = false) returns carry 1 exactly when position
\* id_max-1 was set before the call, leaves no position >= id_max set and
\* leaves size() unchanged; shift_right on {0} gives {1} with carry 0 and on
\* {id_max-1} gives the empty set with carry 1.
C12_InsertAtFullSize ==
    /\ (last.op \in {"insert", "shift_right"} /\ pre.a.size = id_max)
           => /\ (last.ret = 1) = test(pre.a, id_max - 1)
              /\ \A p \in BitsOf(bv.a) : p < id_max
              /\ bv.a.size = pre.a.size
    /\ (last.op = "shift_right" /\ pre.a.size = id_max /\ BitsOf(pre.a) = {0})
           => BitsOf(bv.a) = {1} /\ last.ret = 0
    /\ (last.op = "shift_right" /\ pre.a.size = id_max /\ BitsOf(pre.a) = {id_max - 1})
           => BitsOf(bv.a) = {} /\ last.ret = 1

\* C13: insert(n, v) on a vector with size() < id_max, at a position n not
\* beyond size(), leaves every position below n unchanged, makes test(n) = v
\* and every position p > n equal to the old position p-1, and increases
\* size() by exactly 1.
C13_InsertShifts ==
    (last.op = "insert" /\ pre.a.size < id_max /\ last.n <= pre.a.size)
        => /\ BitsOf(bv.a) = InsertedAt(BitsOf(pre.a), last.n, last.v)
           /\ bv.a.size = pre.a.size + 1

\* C14: when position id_max-1 is not set, insert(n, v) followed by erase(n)
\* restores every position other than n, and shift_right followed by
\* shift_left restores the original set.
C14_InsertEraseRestores ==
    /\ (last.op = "erase" /\ last.step = 2 /\ ~test(pre.a, id_max - 1))
           => BitsOf(bv.a) \ {last.n} = BitsOf(pre.a) \ {last.n}
    /\ (last.op = "shift_left" /\ last.step = 2 /\ ~test(pre.a, id_max - 1))
           => BitsOf(bv.a) = BitsOf(pre.a)

----------------------------------------------------------------------------
(* The return values of the single-bit writes, and set_bit_conditional.    *)
(* The calls that return a value give a record [v, ret].                   *)

\* the value set_bit_no_check(n, val) returns: false when the slot already
\* reads val everywhere, else whether the bit of the concrete block differed
set_bit_no_check_ret(v, n, val) ==
    LET nblock == n \div bits_in_block
        blk == get_block_nb(check_allocate_block(v, nblock, val, v.strat), nblock)
    IN  IS_VALID_ADDR(blk) /\ ((n % bits_in_block) \in blk.b) # val

\* the value set_bit(n, val) returns, n < id_max
set_bit_ret(v, n, val) ==
    LET w == init_tree(v)
    IN  set_bit_no_check_ret(IF n >= w.size THEN resize(w, n + 1) ELSE w, n, val)

set_bit_conditional_impl(v, n, val, condition) ==
    LET nblock == n \div bits_in_block
        nbit == n % bits_in_block
        w == check_allocate_block(v, nblock, val, v.strat)
        blk == get_block_nb(w, nblock)
        old_val == nbit \in blk.b
    IN  IF ~IS_VALID_ADDR(blk) THEN [v |-> w, ret |-> FALSE]
        ELSE IF old_val # condition THEN [v |-> w, ret |-> FALSE]
        ELSE IF val # old_val
             THEN [v |-> set_block(w, nblock, block_set_bit(blk, nbit, val)), ret |-> TRUE]
        ELSE [v |-> w, ret |-> FALSE]

\* a conditional write that writes whatever the condition is
set_bit_unconditional(v, n, val, condition) ==
    [v |-> set_bit(v, n, val), ret |-> set_bit_ret(v, n, val)]

\* set_bit_conditional(n, val, condition): the tree is not allocated first
set_bit_conditional(v, n, val, condition) ==
    IF val = condition THEN [v |-> v, ret |-> FALSE]
    ELSE set_bit_conditional_impl(IF n >= v.size THEN resize(v, n + 1) ELSE v,
                                  n, val, condition)

----------------------------------------------------------------------------
(* One public call on a sampled vector *)

InitCall ==
    /\ \E la \in Layouts : bv = [a |-> la, ids |-> <<>>]
    /\ pre = bv
    /\ last = NoCall

\* a.set_bit(n, val); clear_bit(n) is set_bit(n, false)
SetBitAt ==
    \E n \in QueryPositions, val \in BOOLEAN :
        /\ last.op = "init"
        /\ bv' = [bv EXCEPT !.a = set_bit(bv.a, n, val)]
        /\ pre' = bv
        /\ last' = [Call("set_bit", "a", "", "", "", FALSE)
                        EXCEPT !.n = n, !.v = val,
                               !.ret = IF set_bit_ret(bv.a, n, val) THEN 1 ELSE 0]

\* a.set_bit_conditional(n, val, condition); the condition is kept in m
SetBitConditional ==
    \E n \in QueryPositions, val \in BOOLEAN, condition \in BOOLEAN :
        LET r == set_bit_conditional(bv.a, n, val, condition)
        IN  /\ last.op = "init"
            /\ bv' = [bv EXCEPT !.a = r.v]
            /\ pre' = bv
            /\ last' = [Call("set_bit_conditional", "a", "", "", "", FALSE)
                            EXCEPT !.n = n, !.v = val, !.m = IF condition THEN 1 ELSE 0,
                                   !.ret = IF r.ret THEN 1 ELSE 0]

\* a.set_range(left, right, value), with the ends in either order
SetRangeOn ==
    \E left \in EditPositions, right \in EditPositions, value \in BOOLEAN :
        /\ last.op = "init"
        /\ bv' = [bv EXCEPT !.a = set_range(bv.a, left, right, value)]
        /\ pre' = bv
        /\ last' = [Call("set_range", "a", "", "", "", FALSE)
                        EXCEPT !.n = left, !.m = right, !.v = value]

----------------------------------------------------------------------------
(* Bulk writes from an array of positions.  ids is the array as a          *)
(* sequence; start and stop are the code's 0-based indices into it.        *)

\* import_block(ids, nblock, start, stop): the bits of ids[start .. stop-1]
\* are or-ed into block nblock, each taken modulo the block size
import_block(v, ids, nblock, start, stop) ==
    LET w == check_allocate_block(v, nblock, TRUE, "BM_BIT")
        blk == get_block_nb(w, nblock)
        x == blk.b \cup {ids[k + 1] % bits_in_block : k \in start .. (stop - 1)}
    IN  IF IS_FULL_BLOCK(blk) THEN w
        ELSE set_block(w, nblock,
                       BitBlk(IF nblock = set_total_blocks - 1
                              THEN x \ {bits_in_block - 1} ELSE x))

\* idx_arr_block_lookup(ids, size, nb, start): the end of the run of
\* positions of block nb that starts at index start
idx_arr_block_lookup(ids, nb, start) ==
    CHOOSE stop \in start .. Len(ids) :
        /\ \A k \in start .. (stop - 1) : ids[k + 1] \div bits_in_block = nb
        /\ stop = Len(ids) \/ ids[stop + 1] \div bits_in_block # nb

\* the do-while loop of import, from index start
RECURSIVE import_from(_, _, _)
import_from(v, ids, start) ==
    LET nblock == ids[start + 1] \div bits_in_block
        stop == idx_arr_block_lookup(ids, nblock, start)
        w == import_block(v, ids, nblock, start, stop)
    IN  IF stop < Len(ids) THEN import_from(w, ids, stop) ELSE w

\* an import that trusts the one-block shortcut whatever the hint
import_one_block(v, ids, sorted_idx) ==
    import_block(v, ids, ids[1] \div bits_in_block, 0, Len(ids))

\* import(ids, size_in, sorted_idx), size_in > 0
import(v, ids, sorted_idx) ==
    IF sorted_idx = "BM_SORTED"
       /\ ids[1] \div bits_in_block = ids[Len(ids)] \div bits_in_block
    THEN import_block(v, ids, ids[1] \div bits_in_block, 0, Len(ids))
    ELSE import_from(v, ids, 0)

sync_size(v) ==
    IF v.size >= id_max THEN v
    ELSE IF find_reverse(v).found /\ find_reverse(v).pos >= v.size
         THEN resize(v, find_reverse(v).pos + 1)
    ELSE v

\* set(ids, ids_size, so)
set_ids(v, ids, so) ==
    IF Len(ids) = 0 THEN v ELSE sync_size(import(init_tree(v), ids, so))

\* the temporary vector of keep and clear: a default vector after import
\* and resize(last + 1)
bv_tmp(ids, so) ==
    LET t == import(NewVector(id_max, "BM_BIT"), ids, so)
    IN  IF find_reverse(t).found THEN resize(t, find_reverse(t).pos + 1) ELSE t

\* keep(ids, ids_size, so)
keep_ids(v, ids, so) ==
    IF Len(ids) = 0 \/ ~v.root THEN clear(v)
    ELSE IF find_reverse(bv_tmp(ids, so)).found
         THEN combine_operation_and(v, bv_tmp(ids, so), FALSE)
    ELSE clear(v)

\* clear(ids, ids_size, so)
clear_ids(v, ids, so) ==
    IF Len(ids) = 0 \/ ~v.root THEN v
    ELSE IF find_reverse(bv_tmp(ids, so)).found
         THEN combine_operation_sub(v, bv_tmp(ids, so), FALSE)
    ELSE v

IdValues == {0, 9, 10, 25, id_max - 1}

MaxIds == 3

IdLists == UNION {[1 .. n -> IdValues] : n \in 0 .. MaxIds}

BulkSet ==
    \E ids \in IdLists, so \in {"BM_UNKNOWN", "BM_SORTED"} :
        /\ last.op = "init"
        /\ bv' = [a |-> set_ids(bv.a, ids, so), ids |-> ids]
        /\ pre' = bv
        /\ last' = Call("set_ids", "a", "", "", so, FALSE)

BulkKeep ==
    \E ids \in IdLists, so \in {"BM_UNKNOWN", "BM_SORTED"} :
        /\ last.op = "init"
        /\ bv' = [a |-> keep_ids(bv.a, ids, so), ids |-> ids]
        /\ pre' = bv
        /\ last' = Call("keep_ids", "a", "", "", so, FALSE)

BulkClear ==
    \E ids \in IdLists, so \in {"BM_UNKNOWN", "BM_SORTED"} :
        /\ last.op = "init"
        /\ bv' = [a |-> clear_ids(bv.a, ids, so), ids |-> ids]
        /\ pre' = bv
        /\ last' = Call("clear_ids", "a", "", "", so, FALSE)

\* and_bit_no_check(n, val): the GAP branch writes when val AND old differs
\* from old; the bit-block branch tests new_val against val, and then only
\* clears a bit that is clear already
and_bit_no_check(v, n, val) ==
    LET nblock == n \div bits_in_block
        nbit == n % bits_in_block
        w == check_allocate_block(v, nblock, val, v.strat)
        blk == get_block_nb(w, nblock)
        old_val == nbit \in blk.b
    IN  IF ~IS_VALID_ADDR(blk) THEN [v |-> w, ret |-> FALSE]
        ELSE IF BM_IS_GAP(blk)
        THEN (IF (val /\ old_val) # old_val
              THEN [v |-> set_block(w, nblock, block_set_bit(blk, nbit, val)), ret |-> TRUE]
              ELSE [v |-> w, ret |-> FALSE])
        ELSE [v |-> w, ret |-> (old_val /\ val) # val]

\* set_bit_and(n, val), n < size
set_bit_and(v, n, val) == and_bit_no_check(init_tree(v), n, val)

SetBitAnd ==
    \E n \in QueryPositions, val \in BOOLEAN :
        /\ last.op = "init"
        /\ n < bv.a.size
        /\ bv' = [bv EXCEPT !.a = set_bit_and(bv.a, n, val).v]
        /\ pre' = bv
        /\ last' = [Call("set_bit_and", "a", "", "", "", FALSE)
                        EXCEPT !.n = n, !.v = val,
                               !.ret = IF set_bit_and(bv.a, n, val).ret THEN 1 ELSE 0]

NextCall ==
    \/ SetBitAt \/ SetBitConditional \/ SetRangeOn
    \/ BulkSet \/ BulkKeep \/ BulkClear
    \/ SetBitAnd

SpecCall == InitCall /\ [][NextCall]_vars

----------------------------------------------------------------------------
(* Properties of the single calls *)

\* C15: set_bit(n, v), clear_bit(n) and set_bit_conditional(n, v, cond)
\* return true exactly when the value of bit n after the call differs from
\* its value before; set_bit makes bit n equal to v; set_bit_conditional
\* changes bit n to v only when its current value equals cond; and no other
\* position changes.
C15_ChangedFlag ==
    last.op \in {"set_bit", "set_bit_conditional"}
        => /\ (last.ret = 1) = (test(bv.a, last.n) # test(pre.a, last.n))
           /\ BitsOf(bv.a) \ {last.n} = BitsOf(pre.a) \ {last.n}
           /\ last.op = "set_bit" => test(bv.a, last.n) = last.v
           /\ last.op = "set_bit_conditional"
                  => test(bv.a, last.n) =
                         IF test(pre.a, last.n) = (last.m = 1) THEN last.v
                         ELSE test(pre.a, last.n)

\* a conditional write that cleared a bit of a FULL block, and so changed it
C15_Witness ==
    /\ last.op = "set_bit_conditional" /\ last.ret = 1 /\ ~last.v
    /\ IS_FULL_BLOCK(get_block_nb(pre.a, last.n \div bits_in_block))
    /\ ~test(bv.a, last.n)

\* C16: set_range(l, r, true) with both ends below size() sets every position
\* of the closed interval and leaves every position outside it unchanged;
\* with value false it clears the interval; with l > r it behaves as
\* set_range(r, l, value); and on an empty vector set_range(l, r, true)
\* gives count() = r - l + 1 with test(l-1) and test(r+1) false.
C16_SetRange ==
    LET l == Min2(last.n, last.m)
        r == Max2(last.n, last.m)
    IN  /\ (last.op = "set_range" /\ r < pre.a.size)
               => BitsOf(bv.a) = IF last.v THEN BitsOf(pre.a) \cup (l .. r)
                                 ELSE BitsOf(pre.a) \ (l .. r)
        /\ (last.op = "set_range" /\ last.v /\ BitsOf(pre.a) = {})
               => /\ count(bv.a) = r - l + 1
                  /\ ~test(bv.a, l - 1) /\ ~test(bv.a, r + 1)

\* a set_range called with l > r that cleared part of a FULL block and
\* part of a GAP block and left positions set on both sides
C16_Witness ==
    /\ last.op = "set_range" /\ ~last.v /\ last.n > last.m /\ last.n < pre.a.size
    /\ IS_FULL_BLOCK(get_block_nb(pre.a, last.m \div bits_in_block))
    /\ BM_IS_GAP(get_block_nb(pre.a, last.n \div bits_in_block))
    /\ last.m % bits_in_block # 0
    /\ test(bv.a, last.m - 1) /\ test(bv.a, last.n + 1)
    /\ \A p \in last.m .. last.n : test(pre.a, p) /\ ~test(bv.a, p)

----------------------------------------------------------------------------
(* The enumerator.  Its state is the record                                *)
(*   [position, block_idx, block_type, gap_len, gap_end, nbit]             *)
(* position is the invalid marker id_max or the position it stands at;     *)
(* block_type is 0 for a bit-block (a FULL block is read as the all-one    *)
(* bit-block) and 1 for a GAP block; gap_len is the number of positions    *)
(* left in the current run of ones, gap_end the in-block end of the run    *)
(* the GAP pointer stands at; nbit is the in-block position the bit-block  *)
(* descriptor stands at.                                                   *)

valid(en) == en.position # id_max

invalidate(en) == [en EXCEPT !.position = id_max]

\* the last position of the run (of equal values) of s that starts at p
RunEnd(s, p) ==
    CHOOSE q \in p .. (bits_in_block - 1) :
        /\ \A x \in p .. q : (x \in s) = (p \in s)
        /\ q = bits_in_block - 1 \/ ((q + 1) \in s) # (p \in s)

\* search_in_bitblock / search_in_gapblock on the block en.block_type names,
\* with position at the start of the block: the first set position of the
\* block, or the start of the next block
search_in_block(blk, en) ==
    LET first == CHOOSE q \in blk.b : \A x \in blk.b : q <= x
    IN  IF blk.b = {}
        THEN [found |-> FALSE,
              en |-> [en EXCEPT !.position = @ + bits_in_block,
                                !.gap_end = IF en.block_type = 1 THEN bits_in_block - 1 ELSE @]]
        ELSE IF en.block_type = 1
        THEN [found |-> TRUE,
              en |-> [en EXCEPT !.position = @ + first,
                                !.gap_end = RunEnd(blk.b, first),
                                !.gap_len = RunEnd(blk.b, first) - first + 1]]
        ELSE [found |-> TRUE, en |-> [en EXCEPT !.position = @ + first, !.nbit = first]]

\* the loops of go_first and search_in_blocks from block en.block_idx on
RECURSIVE search_from(_, _)
search_from(v, en) ==
    LET i == en.block_idx \div set_sub_array_size
        blk_blk == v.top[i]
        block == blk_blk.a[en.block_idx % set_sub_array_size]
        r == search_in_block(block, [en EXCEPT !.block_type = IF BM_IS_GAP(block) THEN 1 ELSE 0])
    IN  IF ~v.root \/ i >= v.tsize THEN [found |-> FALSE, en |-> en]
        ELSE IF blk_blk.k = "N"
             THEN search_from(v, [en EXCEPT !.block_idx = @ + set_sub_array_size,
                                            !.position = @ + bits_in_block * set_sub_array_size])
        ELSE IF block.k = "N"
             THEN search_from(v, [en EXCEPT !.block_idx = @ + 1, !.position = @ + bits_in_block])
        ELSE IF r.found THEN r
        ELSE search_from(v, [r.en EXCEPT !.block_idx = @ + 1])

\* a search that starts again at the block just left
search_in_blocks_again(v, en) == search_from(v, en)

search_in_blocks(v, en) == search_from(v, [en EXCEPT !.block_idx = @ + 1])

\* go_first() on the enumerator object en, whose fields the constructor
\* left unset except for the position
go_first(v, en) ==
    LET r == search_from(v, [en EXCEPT !.block_idx = 0, !.position = 0])
    IN  IF ~v.root THEN invalidate(en)
        ELSE IF r.found THEN r.en ELSE invalidate(r.en)

\* go_up(), operator++ and advance(); the position and the run length are
\* unsigned and wrap around; the block the stale descriptors of an invalid
\* enumerator refer to reads as empty
go_up(v, en) ==
    LET blk == get_block_nb(v, en.block_idx)
        nxt == {q \in blk.b : q > en.nbit}
        len == (en.gap_len - 1) % 65536
        pos1 == (en.position + 1) % (id_max + 1)
        e1 == RunEnd(blk.b, en.gap_end + 1)
        e2 == RunEnd(blk.b, e1 + 1)
        moved == IF en.block_type = 0
                 THEN [en EXCEPT !.position = (@ + bits_in_block - en.nbit) % (id_max + 1)]
                 ELSE IF en.gap_end = bits_in_block - 1
                 THEN [en EXCEPT !.position = pos1, !.gap_len = len]
                 ELSE [en EXCEPT !.position = pos1 + e1 - en.gap_end, !.gap_len = len,
                                 !.gap_end = e1]
        r == search_in_blocks(v, moved)
    IN  IF en.block_type = 0 /\ nxt # {}
        THEN [en EXCEPT !.position = @ - en.nbit + (CHOOSE q \in nxt : \A x \in nxt : q <= x),
                        !.nbit = CHOOSE q \in nxt : \A x \in nxt : q <= x]
        ELSE IF en.block_type = 1 /\ len # 0
        THEN [en EXCEPT !.position = pos1, !.gap_len = len]
        ELSE IF en.block_type = 1 /\ en.gap_end # bits_in_block - 1 /\ e1 # bits_in_block - 1
        THEN [en EXCEPT !.position = pos1 + e1 - en.gap_end, !.gap_end = e2, !.gap_len = e2 - e1]
        ELSE IF r.found THEN r.en ELSE invalidate(r.en)

\* the bits of one bitscan wave, scaled with the block
wave_bits == 5

\* decode_bit_group(bdescr, rank): a wave is passed over undecoded when
\* its popcount is below the rank
skip_wave_at_equal(rank, cnt) == rank >= cnt

skip_wave(rank, cnt) == rank > cnt

\* decode_bit_group(bdescr, rank) from wave w of the block on: the first
\* set bit of the first wave that is decoded, and the rank left
RECURSIVE decode_bit_group_rank(_, _, _)
decode_bit_group_rank(blk, w, rank) ==
    LET wave == {q \in blk.b : q \div wave_bits = w}
    IN  IF w * wave_bits >= bits_in_block THEN [found |-> FALSE, nbit |-> 0, rank |-> rank]
        ELSE IF skip_wave(rank, Cardinality(wave))
        THEN decode_bit_group_rank(blk, w + 1, rank - Cardinality(wave))
        ELSE IF wave # {}
        THEN [found |-> TRUE, nbit |-> CHOOSE q \in wave : \A x \in wave : q <= x, rank |-> rank]
        ELSE decode_bit_group_rank(blk, w + 1, rank)

\* the inner loop of skip over a bit-block: brk tells that the block ended
RECURSIVE skip_bit(_, _, _)
skip_bit(v, en, rank) ==
    LET blk == get_block_nb(v, en.block_idx)
        nxt == {q \in blk.b : q > en.nbit /\ q \div wave_bits = en.nbit \div wave_bits}
        first == CHOOSE q \in nxt : \A x \in nxt : q <= x
        r == decode_bit_group_rank(blk, en.nbit \div wave_bits + 1, rank)
    IN  IF rank = 0 THEN [en |-> en, rank |-> 0]
        ELSE IF nxt # {}
        THEN skip_bit(v, [en EXCEPT !.position = @ - en.nbit + first, !.nbit = first], rank - 1)
        ELSE IF r.found
        THEN skip_bit(v, [en EXCEPT !.position = @ - en.nbit + r.nbit, !.nbit = r.nbit],
                      r.rank - 1)
        ELSE [en |-> [en EXCEPT !.position = (@ + bits_in_block - en.nbit) % (id_max + 1)],
              rank |-> r.rank]

\* the inner loop of skip over a GAP block
RECURSIVE skip_gap(_, _, _)
skip_gap(v, en, rank) ==
    LET blk == get_block_nb(v, en.block_idx)
        len == (en.gap_len - 1) % 65536
        pos1 == (en.position + 1) % (id_max + 1)
        e1 == RunEnd(blk.b, en.gap_end + 1)
        e2 == RunEnd(blk.b, e1 + 1)
    IN  IF rank = 0 THEN [en |-> en, rank |-> 0]
        ELSE IF len # 0
        THEN skip_gap(v, [en EXCEPT !.position = pos1, !.gap_len = len], rank - 1)
        ELSE IF en.gap_end = bits_in_block - 1
        THEN [en |-> [en EXCEPT !.position = pos1, !.gap_len = len], rank |-> rank]
        ELSE IF e1 = bits_in_block - 1
        THEN [en |-> [en EXCEPT !.position = pos1 + e1 - en.gap_end, !.gap_len = len,
                                !.gap_end = e1], rank |-> rank]
        ELSE skip_gap(v, [en EXCEPT !.position = pos1 + e1 - en.gap_end, !.gap_end = e2,
                                    !.gap_len = e2 - e1], rank - 1)

\* the outer loop of skip, rank > 0; this is skip without the test of
\* valid() at its entry
RECURSIVE skip_unchecked(_, _, _)
skip_unchecked(v, en, rank) ==
    LET r == IF en.block_type = 0 THEN skip_bit(v, en, rank) ELSE skip_gap(v, en, rank)
        s == search_in_blocks(v, r.en)
    IN  IF r.rank = 0 THEN r.en
        ELSE IF ~s.found THEN invalidate(s.en)
        ELSE IF r.rank = 1 THEN s.en
        ELSE skip_unchecked(v, s.en, r.rank - 1)

\* skip(rank)
skip(v, en, rank) ==
    IF ~valid(en) \/ rank = 0 THEN en ELSE skip_unchecked(v, en, rank)

\* check_or_next(prev) beyond the block of prev: the first set position of
\* the blocks from nb on, 0 when there is none
RECURSIVE find_from_block(_, _)
find_from_block(v, nb) ==
    LET blk_blk == get_topblock(v, BlockI(nb))
        blk == blk_blk.a[BlockJ(nb)]
    IN  IF BlockI(nb) >= v.tsize THEN 0
        ELSE IF blk_blk.k = "N" THEN find_from_block(v, (BlockI(nb) + 1) * set_sub_array_size)
        ELSE IF blk.b # {}
        THEN nb * bits_in_block + (CHOOSE q \in blk.b : \A x \in blk.b : q <= x)
        ELSE find_from_block(v, nb + 1)

\* a check_or_next that looks into the block of prev only
check_or_next_in_block(v, prev) ==
    LET blk == get_block_nb(v, prev \div bits_in_block)
        nxt == {q \in blk.b : q >= prev % bits_in_block}
    IN  IF ~v.root \/ nxt = {} THEN 0
        ELSE (prev \div bits_in_block) * bits_in_block + (CHOOSE q \in nxt : \A x \in nxt : q <= x)

\* check_or_next(prev): the first set position at or after prev, 0 for none
check_or_next(v, prev) ==
    LET nb == prev \div bits_in_block
        blk == get_block_nb(v, nb)
        nxt == {q \in blk.b : q >= prev % bits_in_block}
    IN  IF ~v.root THEN 0
        ELSE IF IS_FULL_BLOCK(blk) THEN prev
        ELSE IF nxt # {} THEN nb * bits_in_block + (CHOOSE q \in nxt : \A x \in nxt : q <= x)
        ELSE find_from_block(v, nb + 1)

\* go_to(pos) on the enumerator object en
go_to(v, en, pos) ==
    LET new_pos == check_or_next(v, pos)
        nb == new_pos \div bits_in_block
        nbit == new_pos % bits_in_block
        blk == get_block_nb(v, nb)
        found == search_in_block(blk, [en EXCEPT !.position = nb * bits_in_block,
                                                 !.block_idx = nb, !.block_type = 1])
    IN  IF pos = 0 THEN go_first(v, en)
        ELSE IF new_pos = 0 THEN invalidate(en)
        ELSE IF BM_IS_GAP(blk)
        THEN [found.en EXCEPT !.position = new_pos,
                              !.gap_end = RunEnd(blk.b, nbit),
                              !.gap_len = RunEnd(blk.b, nbit) - nbit + 1]
        ELSE [en EXCEPT !.position = new_pos, !.block_idx = nb, !.block_type = 0,
                        !.nbit = nbit]

----------------------------------------------------------------------------
(* Enumerations: first() on a sampled layout, then advances.  bv.en is the *)
(* enumerator, bv.out the positions it stood at so far, bv.plain holds     *)
(* while every advance was a single step from first(), and bv.start is the *)
(* position an enumeration of single steps from go_to was asked to start   *)
(* at (id_max for none).                                                   *)

\* what the constructor leaves unset, as found in memory
JunkEnum ==
    {[position |-> id_max, block_idx |-> 0, block_type |-> t, gap_len |-> g,
      gap_end |-> 0, nbit |-> 0] : t \in {0, 1}, g \in {0, 1}}

SkipRanks == {0, 1, 2, 3, 6, 7, 12}

Yield(out, en) == IF valid(en) THEN Append(out, en.position) ELSE out

InitEnum ==
    /\ \E la \in Layouts :
          bv = [a |-> la, en |-> CHOOSE j \in JunkEnum : j.block_type = 0 /\ j.gap_len = 0,
                out |-> <<>>, plain |-> TRUE, start |-> id_max]
    /\ pre = bv
    /\ last = NoCall

\* a.first(): the enumerator constructor, then go_to(0)
First ==
    \E junk \in JunkEnum :
        /\ last.op = "init"
        /\ bv' = [bv EXCEPT !.en = go_first(bv.a, junk),
                            !.out = Yield(<<>>, go_first(bv.a, junk))]
        /\ pre' = bv
        /\ last' = [Call("first", "a", "", "", "", FALSE)
                        EXCEPT !.ret = go_first(bv.a, junk).position]

\* enumerator(bv, pos): the constructor, then go_to(pos), pos > 0
GoTo ==
    \E junk \in JunkEnum, pos \in 1 .. (id_max - 1) :
        /\ last.op = "init"
        /\ bv' = [bv EXCEPT !.en = go_to(bv.a, junk, pos),
                            !.out = Yield(<<>>, go_to(bv.a, junk, pos)),
                            !.plain = FALSE, !.start = pos]
        /\ pre' = bv
        /\ last' = [Call("go_to", "a", "", "", "", FALSE)
                        EXCEPT !.n = pos, !.ret = go_to(bv.a, junk, pos).position]

\* ++en on a valid enumerator
GoUp ==
    /\ last.op \in {"first", "go_to", "go_up", "skip"}
    /\ last.mode # "invalid"
    /\ valid(bv.en)
    /\ bv' = [bv EXCEPT !.en = go_up(bv.a, bv.en),
                        !.out = Yield(bv.out, go_up(bv.a, bv.en))]
    /\ pre' = bv
    /\ last' = [Call("go_up", "a", "", "", "", FALSE)
                    EXCEPT !.ret = go_up(bv.a, bv.en).position]

\* ++en on an enumerator that is not valid: the assertions are compiled
\* out and the body runs on what the descriptors hold; on a vector without
\* a block tree it reads the unset fields and the missing top array
GoUpInvalid ==
    \E fault \in BOOLEAN, p \in {0, id_max} :
        /\ last.op \in {"first", "go_to", "go_up", "skip"}
        /\ last.mode # "invalid"
        /\ ~valid(bv.en)
        /\ bv.a.root => ~fault /\ p = go_up(bv.a, bv.en).position
        /\ bv' = [bv EXCEPT !.en = IF bv.a.root THEN go_up(bv.a, bv.en)
                                   ELSE [bv.en EXCEPT !.position = p]]
        /\ pre' = bv
        /\ last' = [Call("go_up", "a", "", "", "invalid", fault) EXCEPT !.ret = p]

\* en.skip(rank) and skip_to_rank(rank + 1), on a fresh enumerator or on
\* one that ran off the end
Skip ==
    \E rank \in SkipRanks :
        /\ last.op \in {"first", "go_to"} \/ (last.op = "go_up" /\ ~valid(bv.en))
        /\ last.mode # "invalid"
        /\ bv' = [bv EXCEPT !.en = skip(bv.a, bv.en, rank),
                            !.out = Yield(bv.out, skip(bv.a, bv.en, rank)),
                            !.plain = FALSE, !.start = id_max]
        /\ pre' = bv
        /\ last' = [Call("skip", "a", "", "", IF valid(bv.en) THEN "" ELSE "invalid", FALSE)
                        EXCEPT !.n = rank, !.ret = skip(bv.a, bv.en, rank).position]

NextEnum == First \/ GoTo \/ GoUp \/ GoUpInvalid \/ Skip

SpecEnum == InitEnum /\ [][NextEnum]_vars

\* C17: an enumeration by first() and repeated single advances stands at the
\* set positions in increasing order, each exactly once and none left out,
\* and is invalid as soon as the last one was passed; first() on a vector
\* without set bits is invalid at once
C17_EnumeratesSetBits ==
    (last.op \in {"first", "go_up"} /\ last.mode # "invalid" /\ bv.plain) =>
        /\ \A k \in 1 .. Len(bv.out) :
              /\ bv.out[k] \in BitsOf(bv.a)
              /\ Cardinality({q \in BitsOf(bv.a) : q < bv.out[k]}) = k - 1
        /\ valid(bv.en) => Len(bv.out) >= 1 /\ bv.en.position = bv.out[Len(bv.out)]
        /\ ~valid(bv.en) => Len(bv.out) = Cardinality(BitsOf(bv.a))

C17_Witness ==
    /\ last.op = "go_up" /\ last.mode # "invalid" /\ bv.plain
    /\ ~valid(bv.en)
    /\ Len(bv.out) = Cardinality(BitsOf(bv.a))
    /\ Len(bv.out) > bits_in_block
    /\ \E nb \in 0 .. (set_total_blocks - 1) : get_block_nb(bv.a, nb).k = "G"
    /\ \E nb \in 0 .. (set_total_blocks - 1) : get_block_nb(bv.a, nb).k \in {"B", "F"}

\* C18 as stated: any advance of an invalid enumerator leaves it invalid at
\* the invalid marker
C18_AdvanceInvalidNoOp ==
    (last.op \in {"go_up", "skip"} /\ last.mode = "invalid") =>
        /\ ~last.fault
        /\ ~valid(bv.en)
        /\ bv.en.position = id_max

\* C18: skip(rank) on an invalid enumerator changes nothing of it
C18_SkipInvalidNoOp ==
    (last.op = "skip" /\ last.mode = "invalid") => bv.en = pre.en

C18_Witness ==
    /\ last.op = "skip" /\ last.mode = "invalid" /\ last.n > 0
    /\ bv.en.block_type = 1
    /\ Len(bv.out) > 0
    /\ ~valid(bv.en)

\* C19: a.compare(b) is -1, 0 or 1; it is 0 exactly when a and b hold the
\* same set of bits, whatever the blocks and top arrays that represent them;
\* b.compare(a) is its negation; when the sets differ it is 1 exactly when
\* the lowest position at which they differ is set in a
C19_Compare ==
    (last.op = "compare") =>
        LET A == BitsOf(pre.a)
            B == BitsOf(pre.b)
            d == (A \ B) \cup (B \ A)
        IN  /\ last.ret \in {-1, 0, 1}
            /\ (last.ret = 0) = (A = B)
            /\ last.m = 0 - last.ret
            /\ A # B => ((last.ret = 1) = ((CHOOSE n \in d : \A q \in d : n <= q) \in A))

C19_Witness ==
    /\ last.op = "compare"
    /\ last.ret = 0
    /\ pre.a.tsize # pre.b.tsize
    /\ BitsOf(pre.a) # {}
    /\ \E nb \in 0 .. (set_total_blocks - 1) :
          get_block_nb(pre.a, nb).k = "N" /\ get_block_nb(pre.b, nb).k \in {"B", "G"}

\* C20: set(ids) leaves the old bits united with the positions of ids,
\* keep(ids) the old bits intersected with them, clear(ids) the old bits
\* without them, whatever the order and the repetitions in ids under the
\* hint BM_UNKNOWN, and the same under BM_SORTED when ids is ascending
C20_BulkOps ==
    LET I == {bv.ids[k] : k \in 1 .. Len(bv.ids)}
        old == BitsOf(pre.a)
        ascending == \A k \in 1 .. (Len(bv.ids) - 1) : bv.ids[k] <= bv.ids[k + 1]
    IN  (last.op \in {"set_ids", "keep_ids", "clear_ids"}
         /\ (last.mode = "BM_SORTED" => ascending)) =>
            BitsOf(bv.a) = CASE last.op = "set_ids" -> old \cup I
                             [] last.op = "keep_ids" -> old \cap I
                             [] OTHER -> old \ I

C20_Witness ==
    /\ last.op = "keep_ids" /\ last.mode = "BM_UNKNOWN"
    /\ Len(bv.ids) = MaxIds
    /\ bv.ids[1] > bv.ids[2] /\ bv.ids[3] = bv.ids[1]
    /\ bv.ids[1] \div bits_in_block # bv.ids[2] \div bits_in_block
    /\ BitsOf(bv.a) # {}
    /\ BitsOf(bv.a) # BitsOf(pre.a)

\* C23: a three-operand operation whose target is one of its operands gives
\* the result of the operation on the old values: a.OP(a, b, m) leaves a
\* equal to (old a) OP b and b.OP(a, b, m) leaves b equal to a OP (old b)
C23_AliasedTarget ==
    (last.op = "aliased") =>
        BitsOf(bv[last.tgt]) = SetOp(last.op3, BitsOf(pre.a), BitsOf(pre.b))

\* C24: set_bit_and(n, val) with n < size() leaves bit n equal to
\* (old bit n) AND val, changes no other position, and returns true exactly
\* when bit n changed, in a bit-block as in a GAP block
C24_SetBitAnd ==
    (last.op = "set_bit_and") =>
        /\ test(bv.a, last.n) = (test(pre.a, last.n) /\ last.v)
        /\ BitsOf(bv.a) \ {last.n} = BitsOf(pre.a) \ {last.n}
        /\ (last.ret = 1) = (test(bv.a, last.n) # test(pre.a, last.n))

\* C25: erase(n) leaves every position below n unchanged and gives every
\* position p >= n the old value of p + 1, the value beyond the last
\* addressable position counting as 0, for every block layout
C25_EraseShifts ==
    (last.op = "erase" /\ last.step = 1) =>
        BitsOf(bv.a) = {p \in BitsOf(pre.a) : p < last.n}
                       \cup {p - 1 : p \in {q \in BitsOf(pre.a) : q > last.n}}

\* C26: go_to(pos) leaves the enumerator at the least set position >= pos,
\* or invalid when there is none, and the advances that follow stand at the
\* set positions after it in increasing order, none left out, as they do
\* for an enumerator that came there from first()
C26_GoTo ==
    (bv.start # id_max /\ last.op \in {"go_to", "go_up"} /\ last.mode # "invalid") =>
        LET S == {q \in BitsOf(bv.a) : q >= bv.start}
        IN  /\ \A k \in 1 .. Len(bv.out) :
                  /\ bv.out[k] \in S
                  /\ Cardinality({q \in S : q < bv.out[k]}) = k - 1
            /\ valid(bv.en) => Len(bv.out) >= 1 /\ bv.en.position = bv.out[Len(bv.out)]
            /\ ~valid(bv.en) => Len(bv.out) = Cardinality(S)

C26_Witness ==
    /\ bv.start # id_max /\ last.op = "go_up" /\ last.mode # "invalid"
    /\ ~valid(bv.en)
    /\ Len(bv.out) > bits_in_block
    /\ bv.out[1] > bv.start
    /\ get_block_nb(bv.a, bv.out[1] \div bits_in_block).k = "G"
    /\ bv.out[1] % bits_in_block > 0

\* the enumerator after k calls of advance()
RECURSIVE AdvanceTimes(_, _, _)
AdvanceTimes(v, en, k) ==
    IF k = 0 \/ ~valid(en) THEN en ELSE AdvanceTimes(v, go_up(v, en), k - 1)

\* C27: skip(k), k >= 1, on a valid enumerator ends at the position and the
\* validity that k calls of advance() end at: on the k-th set bit after the
\* current one, or invalid when fewer than k set bits follow
C27_SkipIsAdvances ==
    (last.op = "skip" /\ last.mode # "invalid" /\ last.n >= 1) =>
        LET after == {q \in BitsOf(bv.a) : q > pre.en.position}
        IN  /\ bv.en.position = AdvanceTimes(pre.a, pre.en, last.n).position
            /\ valid(bv.en) = (Cardinality(after) >= last.n)
            /\ valid(bv.en) =>
                  /\ bv.en.position \in after
                  /\ Cardinality({q \in after : q < bv.en.position}) = last.n - 1

C27_Witness ==
    /\ last.op = "skip" /\ last.mode # "invalid" /\ last.n > wave_bits
    /\ valid(bv.en)
    /\ pre.en.block_type = 0
    /\ pre.en.position % wave_bits > 0
    /\ bv.en.block_idx > pre.en.block_idx

(***************************************************************************)
(* The XOR scanner (bmxor.h).  A bit-block is the set of its set bits over *)
(* block_waves waves of wave_max_bits bits; a digest is a set of wave      *)
(* indexes.  The scanner's blocks are scaled apart from the vector's: the  *)
(* overhead floor of validate_found keeps its value, so a block has to be  *)
(* wide enough for a gain above it.                                        *)
(***************************************************************************)

block_waves == 2

wave_max_bits == 36

gap_max_bits == block_waves * wave_max_bits

XWaves == 0 .. (block_waves - 1)

XorOf(s1, s2) == (s1 \ s2) \cup (s2 \ s1)

\* number of runs of equal bits of s over the positions lo .. hi
RunsIn(s, lo, hi) ==
    1 + Cardinality({p \in lo .. (hi - 1) : (p \in s) # ((p + 1) \in s)})

WaveBitsOf(s, i) == {p \in s : p \div wave_max_bits = i}

\* bit_block_change32 / bit_count_min_unroll over wave i of a block
bit_block_change32(blk, i) ==
    RunsIn(blk, i * wave_max_bits, (i + 1) * wave_max_bits - 1)

bit_count_min_unroll(blk, i) == Cardinality(WaveBitsOf(blk, i))

\* GAP count and bit count of a whole block
bit_block_change_bc(blk) ==
    [gc |-> RunsIn(blk, 0, gap_max_bits - 1), bc |-> Cardinality(blk)]

\* bit i of the digest is set iff wave i has a set bit
calc_block_digest0(blk) == {i \in XWaves : WaveBitsOf(blk, i) # {}}

block_find_first_diff(blk, arg_blk) == blk # arg_blk

\* GAP count and bit count of wave i of block XOR xor_block
bit_block_xor_change32(block, xor_block, i) ==
    LET x == XorOf(block, xor_block)
    IN  [gc |-> RunsIn(x, i * wave_max_bits, (i + 1) * wave_max_bits - 1),
         bc |-> Cardinality(WaveBitsOf(x, i))]

compute_complexity_descr(block) ==
    [sb_gc |-> [i \in XWaves |-> bit_block_change32(block, i)],
     sb_bc |-> [i \in XWaves |-> bit_count_min_unroll(block, i)]]

\* pass 2 of compute_xor_complexity_descr: the gain of wave i on each metric,
\* 0 where the XOR does not improve it
wave_gc_gain(x_descr, xor_gc, i) ==
    IF xor_gc <= 1 THEN x_descr.sb_gc[i]
    ELSE IF xor_gc < x_descr.sb_gc[i] THEN x_descr.sb_gc[i] - xor_gc
    ELSE 0

wave_bc_gain(x_descr, xor_bc, i) ==
    IF xor_bc < x_descr.sb_bc[i] THEN x_descr.sb_bc[i] - xor_bc ELSE 0

wave_ibc_gain(x_descr, xor_bc, i) ==
    LET xor_ibc  == wave_max_bits - xor_bc
        wave_ibc == wave_max_bits - x_descr.sb_bc[i]
    IN  IF xor_ibc < wave_ibc THEN wave_ibc - xor_ibc ELSE 0

\* the winner when equal maximal gains go to the first of GC, BC, iBC
xor_winner_first(gc_gain, bc_gain, ibc_gain) ==
    IF gc_gain >= bc_gain /\ gc_gain >= ibc_gain THEN "GC"
    ELSE IF bc_gain >= ibc_gain THEN "BC"
    ELSE "iBC"

\* the winning metric of compute_xor_complexity_descr
xor_winner(gc_gain, bc_gain, ibc_gain) ==
    IF gc_gain > bc_gain /\ gc_gain > ibc_gain THEN "GC"
    ELSE IF ~(gc_gain > bc_gain) /\ bc_gain > ibc_gain THEN "BC"
    ELSE "iBC"

\* the end of compute_xor_complexity_descr: the match type, the digest and
\* the block gain from the gains g[i] of the waves, the digest d0 of the
\* all-zero waves of the target and that of the reference; the three gains
\* and digests are kept for the record
xor_match(g, d0, d0_x) ==
    LET gains == [GC |-> SumTo(LAMBDA i : g[i].GC, block_waves - 1),
                  BC |-> SumTo(LAMBDA i : g[i].BC, block_waves - 1),
                  iBC |-> SumTo(LAMBDA i : g[i].iBC, block_waves - 1)]
        digests == [GC |-> {i \in XWaves : g[i].gc_set},
                    BC |-> {i \in XWaves : g[i].BC > 0},
                    iBC |-> {i \in XWaves : g[i].iBC > 0}]
        w == xor_winner(gains.GC, gains.BC, gains.iBC)
    IN  IF gains.GC = 0 /\ gains.BC = 0 /\ gains.iBC = 0
        THEN IF d0 = d0_x
             THEN [match_type |-> "GC", digest |-> d0, block_gain |-> block_waves,
                   gains |-> gains, digests |-> digests]
             ELSE [match_type |-> "none", digest |-> {}, block_gain |-> 0,
                   gains |-> gains, digests |-> digests]
        ELSE [match_type |-> w, digest |-> digests[w], block_gain |-> gains[w],
              gains |-> gains, digests |-> digests]

\* compute_xor_complexity_descr for a target block with the descriptor
\* x_descr: the waves of the target that are all zero are passed over
compute_xor_complexity_descr(block, xor_block, x_descr) ==
    xor_match(
        [i \in XWaves |->
            LET xd == bit_block_xor_change32(block, xor_block, i)
            IN  IF i \in calc_block_digest0(block)
                THEN [GC |-> wave_gc_gain(x_descr, xd.gc, i),
                      gc_set |-> (xd.gc <= 1 \/ xd.gc < x_descr.sb_gc[i]),
                      BC |-> wave_bc_gain(x_descr, xd.bc, i),
                      iBC |-> wave_ibc_gain(x_descr, xd.bc, i)]
                ELSE [GC |-> 0, gc_set |-> FALSE, BC |-> 0, iBC |-> 0]],
        XWaves \ calc_block_digest0(block),
        XWaves \ calc_block_digest0(xor_block))

\* bit_block_xor with the digest test inverted
bit_block_xor_inverted(block, xor_block, digest) ==
    {p \in 0 .. (gap_max_bits - 1) :
        IF (p \div wave_max_bits) \in digest
        THEN p \in block
        ELSE p \in XorOf(block, xor_block)}

\* the target with the waves of the digest XORed with the reference
bit_block_xor(block, xor_block, digest) ==
    {p \in 0 .. (gap_max_bits - 1) :
        IF (p \div wave_max_bits) \in digest
        THEN p \in XorOf(block, xor_block)
        ELSE p \in block}

\* xor_scanner::best_metric
best_metric(bc, gc) ==
    LET ibc == gap_max_bits - bc
    IN  IF ibc = 0 THEN [mtype |-> "GC", best |-> gc]
        ELSE IF gc < bc /\ gc < ibc THEN [mtype |-> "GC", best |-> gc]
        ELSE IF ~(gc < bc) /\ bc < ibc THEN [mtype |-> "BC", best |-> bc]
        ELSE [mtype |-> "iBC", best |-> ibc]

\* the scanner before the first target (members without an initializer are
\* written by compute_x_block_stats and the search before they are read)
NewScanner ==
    [x_descr |-> compute_complexity_descr({}), x_bc |-> 0, x_gc |-> 0,
     x_best_metric |-> 0, x_block_best_metric |-> 0, x_block_mtype |-> "none",
     x_d64 |-> {}, found_ridx |-> 0, found_block_xor |-> [k |-> "N", b |-> {}]]

compute_x_block_stats(sc, block) ==
    LET st == bit_block_change_bc(block)
        bm == best_metric(st.bc, st.gc)
    IN  [sc EXCEPT !.x_descr = compute_complexity_descr(block),
                   !.x_gc = st.gc, !.x_bc = st.bc,
                   !.x_block_mtype = bm.mtype,
                   !.x_block_best_metric = bm.best,
                   !.x_best_metric = bm.best]

\* the loop of search_best_xor_mask over the references ri .. Len(refs) - 1:
\* the first reference with the largest block gain and its digest; scan_next
\* is the end of the loop body for the descriptor r of reference ri
RECURSIVE scan_refs(_, _, _, _, _)
RECURSIVE scan_next(_, _, _, _, _, _)
scan_next(block, x_descr, refs, ri, best, r) ==
    IF r.digest # {} /\ r.block_gain > best.gain
    THEN IF r.block_gain >= gap_max_bits
         THEN [gain |-> r.block_gain, ri |-> ri, d64 |-> r.digest]
         ELSE scan_refs(block, x_descr, refs, ri + 1,
                        [gain |-> r.block_gain, ri |-> ri, d64 |-> r.digest])
    ELSE scan_refs(block, x_descr, refs, ri + 1, best)

scan_refs(block, x_descr, refs, ri, best) ==
    IF ri >= Len(refs) THEN best
    ELSE IF refs[ri + 1].k # "B"
         THEN scan_refs(block, x_descr, refs, ri + 1, best)
         ELSE scan_next(block, x_descr, refs, ri, best,
                        compute_xor_complexity_descr(block, refs[ri + 1].b, x_descr))

\* one of the three tests of a metric m of the XOR product against the
\* running best metric of the scanner
take_metric(sc, m, best_ri, block_xor) ==
    IF m < sc.x_best_metric /\ m < gap_max_bits \div 3
    THEN [sc EXCEPT !.x_best_metric = m, !.found_ridx = best_ri,
                    !.found_block_xor = block_xor]
    ELSE sc

\* the end of search_best_xor_mask for the retained reference best.ri: the
\* XOR product is measured and tested on GC, BC and iBC in turn; the flag is
\* set with the found block, which the search cleared at its start
search_found(sc, best, block, refs) ==
    LET block_xor == refs[best.ri + 1]
        tb == bit_block_xor(block, block_xor.b, best.d64)
        x == bit_block_change_bc(tb)
        s3 == take_metric(take_metric(take_metric(sc, x.gc, best.ri, block_xor),
                                      x.bc, best.ri, block_xor),
                          gap_max_bits - x.bc, best.ri, block_xor)
    IN  IF x.bc = 0
        THEN [sc |-> [sc EXCEPT !.x_best_metric = 0, !.found_ridx = best.ri,
                                !.found_block_xor = block_xor,
                                !.x_block_mtype = "BC", !.x_d64 = best.d64],
              tb |-> tb, ret |-> TRUE]
        ELSE [sc |-> [s3 EXCEPT !.x_d64 = best.d64], tb |-> tb,
              ret |-> s3.found_block_xor.k # "N"]

\* search_best_xor_mask over the whole reference vector: the scanner, the
\* scratch block tb and the returned flag
search_best_xor_mask(sc, block, refs, tb) ==
    LET best == scan_refs(block, sc.x_descr, refs, 0, [gain |-> 0, ri |-> -1, d64 |-> {}])
    IN  IF best.ri = -1
        THEN [sc |-> [sc EXCEPT !.found_block_xor = [k |-> "N", b |-> {}], !.x_d64 = best.d64],
              tb |-> tb, ret |-> FALSE]
        ELSE search_found([sc EXCEPT !.found_block_xor = [k |-> "N", b |-> {}]],
                          best, block, refs)

\* validate_found without the overhead floor
validate_found_any_gain(sc, block) ==
    LET xor_block == bit_block_xor(block, sc.found_block_xor.b, sc.x_d64)
        x == bit_block_change_bc(xor_block)
        bm == best_metric(x.bc, x.gc)
    IN  IF bm.mtype = "BC" /\ x.bc = 0
           /\ ~block_find_first_diff(block, sc.found_block_xor.b)
        THEN [xor_block |-> xor_block, ret |-> "EQ"]
        ELSE IF bm.best < sc.x_block_best_metric
        THEN [xor_block |-> xor_block, ret |-> bm.mtype]
        ELSE [xor_block |-> xor_block, ret |-> "none"]

\* validate_found: the materialised block and the match kind
validate_found(sc, block) ==
    LET xor_block == bit_block_xor(block, sc.found_block_xor.b, sc.x_d64)
        x == bit_block_change_bc(xor_block)
        bm == best_metric(x.bc, x.gc)
        gain_min == (1 + 8 + 4) * 8
    IN  IF bm.mtype = "BC" /\ x.bc = 0
           /\ ~block_find_first_diff(block, sc.found_block_xor.b)
        THEN [xor_block |-> xor_block, ret |-> "EQ"]
        ELSE IF bm.best < sc.x_block_best_metric
                /\ (sc.x_block_best_metric - bm.best) * 3 > gain_min
        THEN [xor_block |-> xor_block, ret |-> bm.mtype]
        ELSE [xor_block |-> xor_block, ret |-> "none"]

(***************************************************************************)
(* The scanner's calls on one target block and one reference vector.       *)
(***************************************************************************)

\* wave patterns: empty, full, alternating from bit 0 and from bit 1, the
\* alternating wave with one more bit, and a run of two bits
XWaveSet ==
    LET all == 0 .. (wave_max_bits - 1)
        even == {p \in all : p % 2 = 0}
    IN  {{}, all, even, all \ even, even \cup {1}, {0, 1}}

XBlocks == {w0 \cup {p + wave_max_bits : p \in w1} : w0 \in XWaveSet, w1 \in XWaveSet}

XRefs == {[k |-> "B", b |-> s] : s \in XBlocks} \cup {[k |-> "N", b |-> {}]}

\* one reference of any kind, or two bit-blocks whose second wave is empty
\* or alternating
XRefLists ==
    LET pair == {s \in XBlocks : \A p \in s : p < wave_max_bits \/ p % 2 = 0}
    IN  {<<r>> : r \in XRefs}
            \cup {<<[k |-> "B", b |-> s1], [k |-> "B", b |-> s2]>> : s1 \in pair, s2 \in pair}

\* no descriptor computed yet
NoDescr ==
    [match_type |-> "none", digest |-> {}, block_gain |-> 0,
     gains |-> [GC |-> 0, BC |-> 0, iBC |-> 0],
     digests |-> [GC |-> {}, BC |-> {}, iBC |-> {}]]

InitXor ==
    /\ \E t \in XBlocks, refs \in XRefLists :
           bv = [T |-> t, refs |-> refs, sc |-> NewScanner, tb |-> {},
                 d |-> NoDescr]
    /\ pre = bv
    /\ last = NoCall

\* compute_complexity_descr(T), then compute_xor_complexity_descr(T, R) for
\* the single reference R
XorDescr ==
    /\ last.op = "init"
    /\ Len(bv.refs) = 1 /\ bv.refs[1].k = "B"
    /\ pre' = bv
    /\ bv' = [bv EXCEPT !.d = compute_xor_complexity_descr(bv.T, bv.refs[1].b,
                                        compute_complexity_descr(bv.T))]
    /\ last' = Call("compute_xor_complexity_descr", "", "", "", "", FALSE)

\* compute_x_block_stats(T), then search_best_xor_mask(T, 0, size)
SearchBestXorMask ==
    /\ last.op = "init"
    /\ LET r == search_best_xor_mask(compute_x_block_stats(bv.sc, bv.T), bv.T, bv.refs, bv.tb)
       IN  /\ pre' = bv
           /\ bv' = [bv EXCEPT !.sc = r.sc, !.tb = r.tb]
           /\ last' = [Call("search_best_xor_mask", "", "", "", "", FALSE) EXCEPT !.v = r.ret]

\* validate_found(xor_block, T) after a search that found a block
ValidateFound ==
    /\ last.op = "search_best_xor_mask" /\ last.v
    /\ LET r == validate_found(bv.sc, bv.T)
       IN  /\ pre' = bv
           /\ bv' = [bv EXCEPT !.tb = r.xor_block]
           /\ last' = [Call("validate_found", "", "", "", "", FALSE) EXCEPT !.mode = r.ret]

NextXor == XorDescr \/ SearchBestXorMask \/ ValidateFound

SpecXor == InitXor /\ [][NextXor]_vars

MaxGain(g) == IF g.GC >= g.BC /\ g.GC >= g.iBC THEN g.GC
              ELSE IF g.BC >= g.iBC THEN g.BC ELSE g.iBC

\* C28 as stated: with a non-zero gain, compute_xor_complexity_descr reports
\* the metric with the largest gain, the first of GC, BC, iBC among equal
\* maximal gains, with that metric's digest and gain
C28_FirstOfTies ==
    (last.op = "compute_xor_complexity_descr" /\ MaxGain(bv.d.gains) > 0) =>
        LET w == xor_winner_first(bv.d.gains.GC, bv.d.gains.BC, bv.d.gains.iBC)
        IN  /\ bv.d.match_type = w
            /\ bv.d.block_gain = bv.d.gains[w]
            /\ bv.d.digest = bv.d.digests[w]

\* C28: with a non-zero gain, compute_xor_complexity_descr reports a metric
\* with the largest gain, with that metric's digest and gain; among equal
\* maximal gains it reports the last of them in the order GC, BC, iBC
C28_LastOfTies ==
    (last.op = "compute_xor_complexity_descr" /\ MaxGain(bv.d.gains) > 0) =>
        LET g == bv.d.gains
            m == bv.d.match_type
        IN  /\ m \in {"GC", "BC", "iBC"}
            /\ g[m] = MaxGain(g)
            /\ bv.d.block_gain = g[m]
            /\ bv.d.digest = bv.d.digests[m]
            /\ (m = "GC") => (g.BC < g.GC /\ g.iBC < g.GC)
            /\ (m = "BC") => (g.iBC < g.BC)

C28_Witness ==
    /\ last.op = "compute_xor_complexity_descr"
    /\ bv.d.gains.GC = bv.d.gains.BC /\ bv.d.gains.GC > bv.d.gains.iBC
    /\ bv.d.match_type = "BC"

\* C29: with all three gains zero, compute_xor_complexity_descr reports a
\* match only if T XOR R is all zero, and otherwise no match with a zero
\* gain and an empty digest
C29_ZeroGain ==
    (last.op = "compute_xor_complexity_descr" /\ MaxGain(bv.d.gains) = 0) =>
        IF XorOf(bv.T, bv.refs[1].b) = {}
        THEN TRUE
        ELSE bv.d.match_type = "none" /\ bv.d.block_gain = 0 /\ bv.d.digest = {}

\* the value of a block on a metric, and the least of the three
MetricOf(s, kind) ==
    CASE kind = "GC" -> RunsIn(s, 0, gap_max_bits - 1)
      [] kind = "BC" -> Cardinality(s)
      [] kind = "iBC" -> gap_max_bits - Cardinality(s)

BestOf(s) == Min2(MetricOf(s, "GC"), Min2(MetricOf(s, "BC"), MetricOf(s, "iBC")))

\* C21: validate_found returns no match, or EQ, or a kind GC, BC or iBC on
\* which T' = T XOR (R masked by the digest) is strictly below T and below
\* T's best metric by more than a third of the 104-bit overhead; EQ is
\* returned only when T' is all zero and T equals R
C21_ValidateFound ==
    (last.op = "validate_found") =>
        LET R  == pre.sc.found_block_xor.b
            Tx == {p \in 0 .. (gap_max_bits - 1) :
                      IF (p \div wave_max_bits) \in pre.sc.x_d64
                      THEN (p \in bv.T) # (p \in R) ELSE p \in bv.T}
        IN  /\ last.mode \in {"none", "EQ", "GC", "BC", "iBC"}
            /\ bv.tb = Tx
            /\ last.mode \in {"GC", "BC", "iBC"} =>
                  /\ MetricOf(Tx, last.mode) < MetricOf(bv.T, last.mode)
                  /\ (BestOf(bv.T) - MetricOf(Tx, last.mode)) * 3 > 104
            /\ last.mode = "EQ" => (Tx = {} /\ bv.T = R)

C21_Witness ==
    /\ last.op = "validate_found"
    /\ last.mode \in {"GC", "BC", "iBC"}

\* the block gain search_best_xor_mask compares for a reference
GainOf(t, r) ==
    IF r.k # "B" THEN 0
    ELSE LET d == compute_xor_complexity_descr(t, r.b, compute_complexity_descr(t))
         IN  IF d.digest # {} THEN d.block_gain ELSE 0

\* the references equal to the target
EqualRefs == {ri \in 1 .. Len(bv.refs) : bv.refs[ri].k = "B" /\ bv.refs[ri].b = bv.T}

\* the outcome for an equal reference: the search returns true with every
\* non-zero wave of T in the digest, validate_found returns EQ and T' is zero
FoundEqual ==
    /\ last.op = "search_best_xor_mask" =>
          /\ last.v
          /\ calc_block_digest0(bv.T) \subseteq bv.sc.x_d64
          /\ validate_found(bv.sc, bv.T) = [xor_block |-> {}, ret |-> "EQ"]
    /\ last.op = "validate_found" => (last.mode = "EQ" /\ bv.tb = {})

\* C22 as stated: a reference equal to the non-zero target anywhere in the
\* range, whatever the other references, gives the equal outcome
C22_EqualAnywhere ==
    (last.op \in {"search_best_xor_mask", "validate_found"}
     /\ bv.T # {} /\ EqualRefs # {}) => FoundEqual

\* C22: when the reference the scan retains, the first of the range with the
\* largest block gain, is equal to the non-zero target, the search returns
\* true with every non-zero wave of T in the digest, validate_found returns
\* EQ and T' is all zero
C22_RetainedEqual ==
    (last.op \in {"search_best_xor_mask", "validate_found"} /\ bv.T # {}
     /\ \E ri \in EqualRefs :
            \A rj \in 1 .. Len(bv.refs) :
                /\ rj < ri => GainOf(bv.T, bv.refs[rj]) < GainOf(bv.T, bv.refs[ri])
                /\ rj > ri => GainOf(bv.T, bv.refs[rj]) <= GainOf(bv.T, bv.refs[ri]))
    => FoundEqual

C22_Witness ==
    /\ last.op = "validate_found" /\ last.mode = "EQ" /\ bv.tb = {}
    /\ Len(bv.refs) = 2
    /\ bv.refs[1].k = "B" /\ bv.refs[1].b # bv.T
    /\ bv.refs[2].k = "B" /\ bv.refs[2].b = bv.T
    /\ bv.sc.found_ridx = 1

(***************************************************************************)
(* search_best_xor_gap: GAP blocks of the vector's geometry.               *)
(***************************************************************************)

\* gap_length counts the header word with the run ends
gap_length(s) == GapLen(s) + 1

gap_bit_count_unr(s) == Cardinality(s)

\* gap_operation_xor: the XOR product and its produced length
gap_operation_xor(s1, s2) ==
    [buf |-> XorOf(s1, s2), res_len |-> GapLen(XorOf(s1, s2))]

\* one reference of the loop of search_best_xor_gap, given the running
\* state st = [sc, best_gap_metric, kb_found]
gap_ref_step(st, gap_block, ref, ri, gap_xor_len) ==
    IF ~IS_VALID_ADDR(ref) \/ ~BM_IS_GAP(ref) THEN st
    ELSE IF gap_xor_len <= 3 THEN st
    ELSE
    LET x == gap_operation_xor(gap_block, ref.b)
        res_len == x.res_len
        glen == gap_length(x.buf)
        res_bc == gap_bit_count_unr(x.buf)
        take(t, m, mtype) ==
            [sc |-> [t.sc EXCEPT !.found_ridx = ri, !.found_block_xor = ref,
                                 !.x_block_mtype = mtype],
             best_gap_metric |-> m, kb_found |-> TRUE]
        t1 == IF res_bc = 0 THEN take(st, res_bc, "BC") ELSE st
        t2 == IF res_len < t1.best_gap_metric /\ t1.best_gap_metric - res_len > 2
              THEN take(t1, res_len, "GC") ELSE t1
        t3 == IF res_bc < t2.best_gap_metric /\ t2.best_gap_metric - res_bc > 2
              THEN take(t2, res_bc, "BC") ELSE t2
        res_ibc == bits_in_block - res_bc
        t4 == IF res_ibc < t3.best_gap_metric /\ t3.best_gap_metric - res_ibc > 2
              THEN take(t3, res_ibc, "iBC") ELSE t3
    IN  IF res_len > glen THEN st ELSE t4

RECURSIVE gap_scan_refs(_, _, _, _)
gap_scan_refs(st, gap_block, refs, ri) ==
    IF ri >= Len(refs) THEN st
    ELSE LET ref == refs[ri + 1]
             \* the length tested for the reference is read from gap_block
             t == gap_ref_step(st, gap_block, ref, ri, gap_length(gap_block))
         IN  IF IS_VALID_ADDR(ref) /\ BM_IS_GAP(ref) /\ t.best_gap_metric <= 1
             THEN t
             ELSE gap_scan_refs(t, gap_block, refs, ri + 1)

\* search_best_xor_gap over the whole reference vector: the scanner and the
\* returned flag
search_best_xor_gap(sc, gap_block, refs) ==
    LET gap_len == gap_length(gap_block)
        bc == gap_bit_count_unr(gap_block)
    IN  IF gap_len <= 3 THEN [sc |-> sc, ret |-> FALSE]
        ELSE LET st == gap_scan_refs([sc |-> sc, best_gap_metric |-> Min2(gap_len, bc),
                                      kb_found |-> FALSE], gap_block, refs, 0)
             IN  [sc |-> st.sc, ret |-> st.kb_found]

\* GAP blocks of at most four runs
XGapSets == {s \in SUBSET BitIdx : GapLen(s) <= 4}

XGapRefs == {GapBlk(s) : s \in XGapSets} \cup {BitBlk({0, 2, 4, 6, 8}), NullBlk}

XGapRefLists ==
    {<<r>> : r \in XGapRefs}
        \cup {<<GapBlk(s1), GapBlk(s2)>> : s1 \in {s \in XGapSets : GapLen(s) <= 2},
                                         s2 \in {s \in XGapSets : GapLen(s) <= 2}}

InitXorGap ==
    /\ \E t \in XGapSets, refs \in XGapRefLists :
           bv = [T |-> t, refs |-> refs, sc |-> NewScanner]
    /\ pre = bv
    /\ last = NoCall

SearchBestXorGap ==
    /\ last.op = "init"
    /\ LET r == search_best_xor_gap(bv.sc, bv.T, bv.refs)
       IN  /\ pre' = bv
           /\ bv' = [bv EXCEPT !.sc = r.sc]
           /\ last' = [Call("search_best_xor_gap", "", "", "", "", FALSE) EXCEPT !.v = r.ret]

NextXorGap == SearchBestXorGap

SpecXorGap == InitXorGap /\ [][NextXorGap]_vars

\* C30: search_best_xor_gap returns false for a target of GAP length 3 or
\* less, and a reference of GAP length 3 or less is never the found block
C30_ShortGapSkipped ==
    (last.op = "search_best_xor_gap") =>
        /\ gap_length(bv.T) <= 3 => ~last.v
        /\ last.v => gap_length(bv.sc.found_block_xor.b) > 3
====
